---- MODULE Spec2Model ----
(***************************************************************************)
(* Resume screening core: the similarity checker                           *)
(* (utils/improved_similarity_checker.py) and the analysis engine          *)
(* (utils/ai_analysis_engine.py), as a state machine of calls made by a    *)
(* portal session on a pair (resume_text, jd_text).                        *)
(*                                                                         *)
(* Texts are TLA+ strings; characters are one-character strings.  Scores   *)
(* are exact rationals [n, d] (Python computes them in binary floating     *)
(* point; every threshold the code compares against is hit or missed       *)
(* identically by the exact value on the inputs explored here).            *)
(***************************************************************************)
EXTENDS Integers, Sequences, FiniteSets, TLC

(***************************************************************************)
(* Bounds of the exploration.                                              *)
(***************************************************************************)
\* most fragments joined with ", " into one resume text
MaxParts == 2

VARIABLES
    all_skills,       \* self.all_skills of the session's EnhancedSimilarityChecker
    critical_skills,  \* self.critical_skills of the session's AIAnalysisEngine
    resume_text,      \* the resume the session screens
    jd_text,          \* the job description it screens against
    tie_up,           \* whether the binary float of an exact tie x.x5 rounds up
    pc,               \* "idle", or how the last call ended: "returned" / "raised"
    op,               \* the operation called last
    exc,              \* the exception the call raised to its caller, or NoException
    sub_scores,       \* calculate_weighted_score's five sub-scores (its locals)
    overall_score,    \* what calculate_weighted_score returned
    similarity,       \* what calculate_similarity_score returned
    analysis,         \* what get_detailed_analysis returned
    match_score,      \* the score handed to analyze_resume
    feedback,         \* what analyze_resume returned
    fired,            \* the statements its checks appended, before fallback and cut
    seen,             \* every outcome of a scoring call on this pair so far
    repeat,           \* the last call was made with seen non-empty
    between,          \* a non-scoring call was made since the first scoring call
    absent,           \* the arguments the session passes as None instead of a text
    clean,            \* what preprocess_text returned
    metadata,         \* what get_comprehensive_metadata returned
    contact,          \* what extract_email_phone_location returned
    served,           \* the pairs the session's instances scored before the present one
    found_skills,     \* what extract_skills returned
    candidates,       \* the rows of table candidates
    screening_results, \* the rows of table screening_results
    sqlite_sequence,  \* the largest id each AUTOINCREMENT table has handed out
    clock,            \* CURRENT_TIMESTAMP, in seconds
    sessions          \* each portal session: its position in the submission and its locals

vars == <<all_skills, critical_skills, resume_text, jd_text, tie_up, pc, op, exc,
          sub_scores, overall_score, similarity, analysis, match_score, feedback, fired, seen,
          repeat, between, absent, clean, metadata, contact, served,
          found_skills, candidates, screening_results, sqlite_sequence, clock, sessions>>

\* the database and the sessions of the candidate portal
db_vars == <<candidates, screening_results, sqlite_sequence, clock, sessions>>

\* the state of the calls on missing texts and of the metadata extractor, and the
\* database, which no call of the scoring core touches
meta_vars == <<absent, clean, metadata, contact, served, found_skills, db_vars>>

(***************************************************************************)
(* Characters and strings                                                  *)
(***************************************************************************)
Ch(t, i) == IF i >= 1 /\ i <= Len(t) THEN SubSeq(t, i, i) ELSE ""

CharsOf(s) == {SubSeq(s, i, i) : i \in 1..Len(s)}

LowerLetters == "abcdefghijklmnopqrstuvwxyz"

UpperLetters == "ABCDEFGHIJKLMNOPQRSTUVWXYZ"

DigitChars == "0123456789"

DigitSet == CharsOf(DigitChars)

UpperSet == CharsOf(UpperLetters)

\* \w of Python's re on the characters used here
WordCharSet == CharsOf(LowerLetters) \cup UpperSet \cup DigitSet \cup {"_"}

\* \s of Python's re, str.split() separators
SpaceSet == {" ", "\n", "\t", "\r"}

IsDigit(c) == c \in DigitSet

IsWordChar(c) == c \in WordCharSet

IsSpace(c) == c \in SpaceSet

LowerOf == [c \in UpperSet |->
              LET k == CHOOSE i \in 1..26 : SubSeq(UpperLetters, i, i) = c
              IN  SubSeq(LowerLetters, k, k)]

LowerChar(c) == IF c \in UpperSet THEN LowerOf[c] ELSE c

RECURSIVE LowerRange(_, _, _)
LowerRange(t, lo, hi) ==
    IF lo > hi THEN ""
    ELSE IF lo = hi THEN LowerChar(SubSeq(t, lo, lo))
    ELSE LET mid == (lo + hi) \div 2
         IN  LowerRange(t, lo, mid) \o LowerRange(t, mid + 1, hi)

\* str.lower()
Lower(t) == LowerRange(t, 1, Len(t))

MatchAt(t, kw, i) == i >= 1 /\ i + Len(kw) - 1 <= Len(t) /\ SubSeq(t, i, i + Len(kw) - 1) = kw

Positions(t, kw) == {i \in 1..(Len(t) - Len(kw) + 1) : SubSeq(t, i, i + Len(kw) - 1) = kw}

\* kw in t
Contains(t, kw) == \E i \in 1..(Len(t) - Len(kw) + 1) : SubSeq(t, i, i + Len(kw) - 1) = kw

Min(S) == CHOOSE x \in S : \A y \in S : x <= y

Max(S) == CHOOSE x \in S : \A y \in S : x >= y

RECURSIVE GreedyCount(_, _, _)
GreedyCount(P, len, from) ==
    LET C == {p \in P : p >= from}
    IN  IF C = {} THEN 0 ELSE 1 + GreedyCount(C, len, Min(C) + len)

\* str.count(kw): occurrences counted left to right without overlap
Count(t, kw) == GreedyCount(Positions(t, kw), Len(kw), 1)

RECURSIVE SumOver(_, _, _)
SumOver(F(_), seq, i) == IF i > Len(seq) THEN 0 ELSE F(seq[i]) + SumOver(F, seq, i + 1)

RECURSIVE JoinFrom(_, _, _)
JoinFrom(seq, sep, i) ==
    IF i > Len(seq) THEN ""
    ELSE IF i = Len(seq) THEN seq[i]
    ELSE seq[i] \o sep \o JoinFrom(seq, sep, i + 1)

\* sep.join(seq)
Join(seq, sep) == JoinFrom(seq, sep, 1)

\* seq[:n]
Take(seq, n) == SubSeq(seq, 1, IF Len(seq) < n THEN Len(seq) ELSE n)

\* ---- words: str.split() ----
WordStarts(t) == {i \in 1..Len(t) : ~IsSpace(Ch(t, i)) /\ (i = 1 \/ IsSpace(Ch(t, i - 1)))}

WordEnd(t, s) == CHOOSE e \in s..Len(t) :
                    /\ (e = Len(t) \/ IsSpace(Ch(t, e + 1)))
                    /\ \A k \in s..e : ~IsSpace(Ch(t, k))

\* set(t.split())
SplitSet(t) == {SubSeq(t, s, WordEnd(t, s)) : s \in WordStarts(t)}

\* len(t.split())
WordCount(t) == Cardinality(WordStarts(t))

RECURSIVE SquashRange(_, _, _, _)
SquashRange(t, first, lo, hi) ==
    IF lo > hi THEN ""
    ELSE IF lo = hi
         THEN IF ~IsSpace(Ch(t, lo)) THEN Ch(t, lo)
              ELSE IF lo > first /\ lo < Len(t) /\ ~IsSpace(Ch(t, lo + 1)) THEN " "
              ELSE ""
    ELSE LET mid == (lo + hi) \div 2
         IN  SquashRange(t, first, lo, mid) \o SquashRange(t, first, mid + 1, hi)

\* ' '.join(t.split())
SquashSpaces(t) ==
    LET W == WordStarts(t)
    IN  IF W = {} THEN "" ELSE SquashRange(t, Min(W), 1, Len(t))

\* ---- digit runs: \d+ ----
RunStarts(t) == {i \in 1..Len(t) : IsDigit(Ch(t, i)) /\ ~IsDigit(Ch(t, i - 1))}

RunEnd(t, s) == CHOOSE e \in s..Len(t) :
                   /\ ~IsDigit(Ch(t, e + 1))
                   /\ \A k \in s..e : IsDigit(Ch(t, k))

SkipSpaces(t, i) == CHOOSE e \in i..(Len(t) + 1) :
                       /\ ~IsSpace(Ch(t, e))
                       /\ \A k \in i..(e - 1) : IsSpace(Ch(t, k))

(***************************************************************************)
(* Exact rationals                                                         *)
(***************************************************************************)
RECURSIVE GCD(_, _)
GCD(a, b) == IF b = 0 THEN a ELSE GCD(b, a % b)

Q(n, d) == LET g == GCD(IF n < 0 THEN -n ELSE n, d) IN [n |-> n \div g, d |-> d \div g]

QInt(k) == [n |-> k, d |-> 1]

QAdd(a, b) == Q(a.n * b.d + b.n * a.d, a.d * b.d)

QMul(a, b) == Q(a.n * b.n, a.d * b.d)

QLe(a, b) == a.n * b.d <= b.n * a.d

QLt(a, b) == a.n * b.d < b.n * a.d

QGe(a, b) == QLe(b, a)

\* min() that always keeps its first argument
QFirst(a, b) == a

QMin(a, b) == IF QLe(a, b) THEN a ELSE b

QMax(a, b) == IF QLe(a, b) THEN b ELSE a

\* round(x, k) for x >= 0: nearest multiple of 1/10^k, an exact tie to the even one
RoundTo(x, scale) ==
    LET num == x.n * scale
        f   == num \div x.d
        r   == num - f * x.d
        up  == 2 * r > x.d \/ (2 * r = x.d /\ f % 2 = 1)
    IN  Q(IF up THEN f + 1 ELSE f, scale)

Round1(x) == RoundTo(x, 10)

RECURSIVE NatToStr(_)
NatToStr(k) == IF k < 10 THEN SubSeq(DigitChars, k + 1, k + 1)
               ELSE NatToStr(k \div 10) \o SubSeq(DigitChars, (k % 10) + 1, (k % 10) + 1)

\* f"{x:.1f}" for x >= 0
Format1f(x) ==
    LET Digits(tenths) == NatToStr(tenths \div 10) \o "." \o NatToStr(tenths % 10)
        Tenths(r) == r.n * (10 \div r.d)
    IN  Digits(Tenths(Round1(x)))

(***************************************************************************)
(* Results of operations that can raise                                    *)
(***************************************************************************)
NoException == "none"

Ok(v) == [exc |-> NoException, val |-> v]

Raise(e, v) == [exc |-> e, val |-> v]

\* CPython's limit on int(str): sys.int_info.default_max_str_digits
IntMaxStrDigits == 4300

DigitVal(c) == CHOOSE k \in 0..9 : SubSeq(DigitChars, k + 1, k + 1) = c

RECURSIVE IntValue(_)
IntValue(s) == IF Len(s) = 0 THEN 0
               ELSE 10 * IntValue(SubSeq(s, 1, Len(s) - 1)) + DigitVal(SubSeq(s, Len(s), Len(s)))

\* int(s) raises ValueError on more than IntMaxStrDigits digits
IntRaises(s) == Len(s) > IntMaxStrDigits

RECURSIVE MapRange(_, _, _, _)
\* the characters lo..hi of t, each replaced by F of its position
MapRange(F(_), t, lo, hi) ==
    IF lo > hi THEN ""
    ELSE IF lo = hi THEN F(lo)
    ELSE LET mid == (lo + hi) \div 2
         IN  MapRange(F, t, lo, mid) \o MapRange(F, t, mid + 1, hi)

RECURSIVE GreedySet(_, _, _)
GreedySet(P, len, from) ==
    LET C == {p \in P : p >= from}
    IN  IF C = {} THEN {} ELSE {Min(C)} \cup GreedySet(C, len, Min(C) + len)

\* t.replace(old, new)
Replace(t, old, new) ==
    LET S == GreedySet(Positions(t, old), Len(old), 1)
        Emit(i) == IF i \in S THEN new
                   ELSE IF \E s \in S : s < i /\ i < s + Len(old) THEN ""
                   ELSE SubSeq(t, i, i)
    IN  IF S = {} THEN t ELSE MapRange(Emit, t, 1, Len(t))

(***************************************************************************)
(* EnhancedSimilarityChecker                                               *)
(***************************************************************************)
\* __init__: self.skill_keywords
skill_keywords ==
    [programming   |-> <<"python", "java", "javascript", "c++", "r", "scala", "go", "rust",
                         "sql", "typescript">>,
     ml_frameworks |-> <<"tensorflow", "pytorch", "keras", "scikit-learn", "xgboost",
                         "lightgbm", "catboost">>,
     big_data      |-> <<"spark", "hadoop", "hive", "kafka", "flink", "airflow">>,
     cloud         |-> <<"aws", "azure", "gcp", "google cloud", "s3", "ec2", "sagemaker",
                         "lambda">>,
     databases     |-> <<"sql", "postgresql", "mysql", "mongodb", "redis", "cassandra",
                         "snowflake", "redshift">>,
     ml_concepts   |-> <<"machine learning", "deep learning", "nlp", "computer vision",
                         "neural network", "supervised learning", "unsupervised learning",
                         "reinforcement learning", "regression", "classification",
                         "clustering", "cnn", "rnn", "lstm", "transformer", "bert", "gpt">>,
     tools         |-> <<"git", "docker", "kubernetes", "jenkins", "ci/cd", "jira", "linux">>,
     visualization |-> <<"tableau", "power bi", "plotly", "matplotlib", "seaborn", "looker",
                         "d3.js">>,
     statistics    |-> <<"statistics", "probability", "hypothesis testing", "a/b testing",
                         "statistical analysis", "regression analysis", "time series",
                         "forecasting">>]

\* __init__: self.all_skills, the categories flattened into one set
InitAllSkills ==
    UNION {{skill_keywords[c][i] : i \in 1..Len(skill_keywords[c])} : c \in DOMAIN skill_keywords}

\* the characters re.sub keeps: [a-zA-Z0-9\s\+\#\.]
PreprocessKeeps(c) == (IsWordChar(c) /\ c # "_") \/ IsSpace(c) \/ c \in {"+", "#", "."}

preprocess_text(text) ==
    IF text = "" THEN ""
    ELSE LET low  == Lower(text)
             Sub(i) == IF PreprocessKeeps(SubSeq(low, i, i)) THEN SubSeq(low, i, i) ELSE " "
             t1   == MapRange(Sub, low, 1, Len(low))
             t2   == Replace(t1, "c++", "cplusplus")
             t3   == Replace(t2, "c#", "csharp")
             t4   == Replace(t3, ".net", "dotnet")
         IN  SquashSpaces(t4)

\* \b at the gap before position p
WordBoundary(t, p) == IsWordChar(Ch(t, p - 1)) # IsWordChar(Ch(t, p))

\* re.search(r'\b' + re.escape(skill) + r'\b', t)
SearchWholeWord(t, skill) ==
    \E i \in Positions(t, skill) : WordBoundary(t, i) /\ WordBoundary(t, i + Len(skill))

extract_skills(self_all_skills, text) ==
    LET text_lower == Lower(text)
    IN  {skill \in self_all_skills : SearchWholeWord(text_lower, Lower(skill))}

\* the score with the bonus for extra skills not limited to 10
SkillMatchUnlimitedBonus(self_all_skills, resume_text_in, jd_text_in) ==
    LET Score(resume_skills, jd_skills) ==
            IF jd_skills = {} THEN QInt(0)
            ELSE QMin(QAdd(Q(100 * Cardinality(resume_skills \cap jd_skills),
                             Cardinality(jd_skills)),
                           QInt(2 * Cardinality(resume_skills \ jd_skills))),
                      QInt(100))
    IN  Score(extract_skills(self_all_skills, resume_text_in),
              extract_skills(self_all_skills, jd_text_in))

calculate_skill_match_score(self_all_skills, resume_text_in, jd_text_in) ==
    LET Score(resume_skills, jd_skills) ==
            LET matched_skills == resume_skills \cap jd_skills
                skill_match_ratio == Q(Cardinality(matched_skills), Cardinality(jd_skills))
                extra_skills  == resume_skills \ jd_skills
                extra_bonus   == QMin(QMul(QInt(Cardinality(extra_skills)), Q(2, 100)), Q(1, 10))
            IN  IF jd_skills = {} THEN QInt(0)
                ELSE QMin(QAdd(QMul(skill_match_ratio, QInt(100)), QMul(extra_bonus, QInt(100))),
                          QInt(100))
    IN  Score(extract_skills(self_all_skills, resume_text_in),
              extract_skills(self_all_skills, jd_text_in))

(***************************************************************************)
(* calculate_tfidf_score.  TfidfVectorizer and cosine_similarity are       *)
(* scikit-learn's; what is modelled of them is the vocabulary the          *)
(* vectorizer builds from the two documents (tokens, stop words, n-grams,  *)
(* the document-frequency limits, the errors it raises) and that a term    *)
(* adds to the dot product of the two rows iff both documents hold it.     *)
(***************************************************************************)
\* stop_words='english': the words of scikit-learn's list that the texts explored here use
EnglishStopWords ==
    {"a", "an", "and", "are", "as", "at", "be", "by", "for", "from", "has", "have", "in",
     "is", "it", "of", "on", "or", "that", "the", "this", "to", "was", "were", "will", "with"}

\* ngram_range=(1, 3)
NgramMax == 3

\* min_df=1
TfidfMinDf == 1

\* max_df=0.95, in hundredths
TfidfMaxDfPct == 95

\* max_features=500
TfidfMaxFeatures == 500

TokenStarts(t) == {i \in 1..Len(t) : IsWordChar(Ch(t, i)) /\ ~IsWordChar(Ch(t, i - 1))}

TokenEnd(t, s) == CHOOSE e \in s..Len(t) :
                     /\ ~IsWordChar(Ch(t, e + 1))
                     /\ \A k \in s..e : IsWordChar(Ch(t, k))

\* the n-grams (1..NgramMax tokens joined by a space) of the tokens of t that match
\* (?u)\b\w\w+\b and are no stop words
Ngrams(t) ==
    LET Grams(low) ==
            LET Tok(s) == SubSeq(low, s, TokenEnd(low, s))
                GramsOf(K) ==
                    LET Last   == IF K = {} THEN 0 ELSE Max(K)
                        Succ(s) == CHOOSE x \in K : x > s /\ \A k \in K : ~(s < k /\ k < x)
                        Gram[n \in 1..NgramMax, s \in K] ==
                            IF n = 1 THEN <<TRUE, Tok(s), s>>
                            ELSE LET Extend(g) ==
                                         IF g[1] /\ g[3] < Last
                                         THEN <<TRUE, g[2] \o " " \o Tok(Succ(g[3])), Succ(g[3])>>
                                         ELSE <<FALSE, "", 0>>
                                 IN  Extend(Gram[n - 1, s])
                    IN  {g[2] : g \in {h \in {Gram[x[1], x[2]] : x \in (1..NgramMax) \X K} : h[1]}}
            IN  GramsOf({s \in TokenStarts(low) : Len(Tok(s)) > 1 /\ Tok(s) \notin EnglishStopWords})
    IN  Grams(Lower(t))

\* a fit without a document-frequency ceiling: every term of either document is kept
TfidfFitNoCeiling(jd_clean, resume_clean) ==
    LET Fit(A, B) ==
            IF A \cup B = {} THEN Raise("ValueError", [vocab |-> {}, shared |-> {}])
            ELSE Ok([vocab |-> A \cup B, shared |-> A \cap B])
    IN  Fit(Ngrams(jd_clean), Ngrams(resume_clean))

\* vectorizer.fit_transform([jd_clean, resume_clean]): the vocabulary kept, or ValueError
TfidfFit(jd_clean, resume_clean) ==
    LET Fit(A, B) ==
            LET Df(t) == (IF t \in A THEN 1 ELSE 0) + (IF t \in B THEN 1 ELSE 0)
                Build(kept) ==
                    LET vocab == IF Cardinality(kept) <= TfidfMaxFeatures THEN kept
                                 ELSE CHOOSE S \in SUBSET kept : Cardinality(S) = TfidfMaxFeatures
                    IN  IF A \cup B = {} \/ kept = {}
                        THEN Raise("ValueError", [vocab |-> {}, shared |-> {}])
                        ELSE Ok([vocab |-> vocab, shared |-> {t \in vocab : t \in A /\ t \in B}])
            IN  Build({t \in A \cup B : Df(t) >= TfidfMinDf /\ Df(t) * 100 <= TfidfMaxDfPct * 2})
    IN  Fit(Ngrams(jd_clean), Ngrams(resume_clean))

\* cosine_similarity of the two rows: 0 iff no term of the vocabulary is in both documents
\* (the share of such terms stands for the value otherwise)
CosineSimilarity(fit) == Q(Cardinality(fit.shared), Cardinality(fit.vocab))

calculate_tfidf_score(resume_text_in, jd_text_in) ==
    LET Boost(fit) ==
            IF fit.exc # NoException THEN Ok(QInt(0))
            ELSE Ok(QMul(QMin(QMul(CosineSimilarity(fit.val), Q(3, 2)), Q(95, 100)), QInt(100)))
        Score(resume_clean, jd_clean) ==
            IF resume_clean = "" \/ jd_clean = "" THEN Ok(QInt(0))
            ELSE Boost(TfidfFit(jd_clean, resume_clean))
    IN  Score(preprocess_text(resume_text_in), preprocess_text(jd_text_in))

(***************************************************************************)
(* calculate_keyword_density_score                                         *)
(***************************************************************************)
\* no word is removed as very common
NoCommonWords == {}

common_words ==
    {"the", "and", "for", "with", "this", "that", "from", "have",
     "has", "had", "are", "was", "were", "will", "would", "could",
     "should", "may", "might", "must", "can", "our", "your", "their",
     "about", "into", "through", "during", "before", "after", "above",
     "below", "between", "under", "again", "further", "then", "once"}

\* a density whose bonus counts the resume's words beyond the size of the required set
KeywordDensityOfResumeSize(resume_text_in, jd_text_in) ==
    LET Density(resume_words, jd_keywords) ==
            LET base_score == QMul(Q(Cardinality(resume_words \cap jd_keywords),
                                     Cardinality(jd_keywords)), QInt(100))
                extra_keywords == Cardinality(resume_words) - Cardinality(jd_keywords)
                bonus == QMin(QMul(QInt(extra_keywords), Q(1, 2)), QInt(15))
            IN  IF jd_keywords = {} THEN QInt(50)
                ELSE IF extra_keywords > 0 THEN QMin(QAdd(base_score, bonus), QInt(100))
                ELSE base_score
    IN  Density(SplitSet(preprocess_text(resume_text_in)),
                {w \in SplitSet(preprocess_text(jd_text_in)) \ common_words : Len(w) > 2})

calculate_keyword_density_score(resume_text_in, jd_text_in) ==
    LET Density(resume_words, jd_keywords) ==
            LET matched_keywords == resume_words \cap jd_keywords
                base_score   == QMul(Q(Cardinality(matched_keywords), Cardinality(jd_keywords)),
                                     QInt(100))
                extra_keywords == Cardinality(matched_keywords) - Cardinality(jd_keywords)
                bonus        == QMin(QMul(QInt(extra_keywords), Q(1, 2)), QInt(15))
            IN  IF jd_keywords = {} THEN QInt(50)
                ELSE IF extra_keywords > 0 THEN QMin(QAdd(base_score, bonus), QInt(100))
                ELSE base_score
        Score(jd_words, resume_words) ==
            Density(resume_words, {w \in jd_words \ common_words : Len(w) > 2})
    IN  Score(SplitSet(preprocess_text(jd_text_in)), SplitSet(preprocess_text(resume_text_in)))

(***************************************************************************)
(* Regular expressions of the experience score and of the analysis engine. *)
(* A match of \d+ is tried first at the first digit of a run (no earlier   *)
(* match ends inside a run) and then takes the whole run.                  *)
(***************************************************************************)
AllDigits(t, lo, hi) == \A k \in lo..hi : IsDigit(Ch(t, k))

\* [\+]?\s*(?:year|yr) from position p on
FollowsYear(t, p) ==
    LET p1 == IF Ch(t, p) = "+" THEN p + 1 ELSE p
        p2 == SkipSpaces(t, p1)
    IN  MatchAt(t, "year", p2) \/ MatchAt(t, "yr", p2)

\* re.findall(r'(\d+)[\+]?\s*(?:year|yr)s?', t): the digit strings captured
FindExperience(t) ==
    {SubSeq(t, s, RunEnd(t, s)) : s \in {r \in RunStarts(t) : FollowsYear(t, RunEnd(t, r) + 1)}}

\* max([int(x) for x in found])
MaxInt(found) == Max({IntValue(x) : x \in found})

\* the last digit of the line of position p, at p or later (0: none): where .*\d+ ends
LastDigitInLine(t, p) ==
    LET NL   == {k \in p..Len(t) : Ch(t, k) = "\n"}
        stop == IF NL = {} THEN Len(t) ELSE Min(NL) - 1
        D    == {k \in p..stop : IsDigit(Ch(t, k))}
    IN  IF D = {} THEN 0 ELSE Max(D)

ChangeVerbs == {"increased", "reduced", "improved"}

\* where the match of \d+%|\d+\+|\$\d+|increased.*\d+|reduced.*\d+|improved.*\d+ that
\* starts at i ends (0: no match at i); dollar and verbs switch those alternatives on
NumberMatchEnd(t, i, dollar, verbs) ==
    LET PE == {e \in (i + 1)..Len(t) : Ch(t, e) \in {"%", "+"} /\ AllDigits(t, i, e - 1)}
        V  == {v \in ChangeVerbs : MatchAt(t, v, i)}
    IN  IF IsDigit(Ch(t, i)) THEN (IF PE = {} THEN 0 ELSE Min(PE))
        ELSE IF dollar /\ Ch(t, i) = "$" /\ IsDigit(Ch(t, i + 1)) THEN RunEnd(t, i + 1)
        ELSE IF verbs /\ V # {} THEN LastDigitInLine(t, i + Len(CHOOSE v \in V : TRUE))
        ELSE 0

RECURSIVE ScanCount(_, _, _)
ScanCount(C, EndOf(_), from) ==
    LET D == {c \in C : c >= from}
    IN  IF D = {} THEN 0 ELSE 1 + ScanCount(D, EndOf, EndOf(Min(D)) + 1)

\* len(re.findall(pattern, t)): matches taken left to right, none overlapping
FindNumbersCount(t, dollar, verbs) ==
    LET Marks == {e \in 1..Len(t) : Ch(t, e) \in {"%", "+"} /\ IsDigit(Ch(t, e - 1))}
        End(i) == NumberMatchEnd(t, i, dollar, verbs)
        C == {i \in 1..Len(t) :
                 IF IsDigit(Ch(t, i))
                 THEN \E e \in Marks : e > i /\ AllDigits(t, i, e - 1)
                 ELSE End(i) > 0}
    IN  ScanCount(C, End, 1)

(***************************************************************************)
(* calculate_experience_score                                              *)
(***************************************************************************)
\* the list without 'led' and 'managed'
BuildingKeywords ==
    <<"developed", "built", "created", "implemented", "designed", "architected", "deployed",
      "achieved", "delivered", "launched", "optimized">>

achievement_keywords ==
    <<"developed", "built", "created", "led", "managed",
      "implemented", "designed", "architected", "deployed",
      "achieved", "delivered", "launched", "optimized">>

calculate_experience_score(resume_text_in, jd_text_in) ==
    LET Score(resume_low, resume_exp, jd_exp) ==
            LET raises == IF resume_exp # {} /\ jd_exp # {}
                          THEN \E x \in resume_exp \cup jd_exp : IntRaises(x)
                          ELSE \E x \in resume_exp : IntRaises(x)
                Compare(max_resume_exp, required_exp) ==
                    IF max_resume_exp >= required_exp THEN 100
                    ELSE IF max_resume_exp * 10 >= required_exp * 8 THEN 85
                    ELSE IF max_resume_exp * 10 >= required_exp * 6 THEN 70
                    ELSE 60
                Alone(years) ==
                    IF years >= 5 THEN 90
                    ELSE IF years >= 3 THEN 80
                    ELSE IF years >= 1 THEN 70
                    ELSE 50
                base == IF resume_exp # {} /\ jd_exp # {}
                        THEN Compare(MaxInt(resume_exp), MaxInt(jd_exp))
                        ELSE IF resume_exp # {} THEN Alone(MaxInt(resume_exp))
                        ELSE 50
                CountOf(keyword) == Count(resume_low, keyword)
                achievement_count == SumOver(CountOf, achievement_keywords, 1)
                quantified_achievements == FindNumbersCount(resume_low, TRUE, TRUE)
                score == QAdd(QAdd(QInt(base),
                                   QMin(QMul(QInt(achievement_count), Q(3, 2)), QInt(15))),
                              QMin(QInt(quantified_achievements * 2), QInt(10)))
            IN  IF raises THEN Raise("ValueError", QInt(0))
                ELSE Ok(QMin(score, QInt(100)))
        WithLower(resume_low) ==
            Score(resume_low, FindExperience(resume_low), FindExperience(Lower(jd_text_in)))
    IN  WithLower(Lower(resume_text_in))

(***************************************************************************)
(* calculate_education_score                                               *)
(***************************************************************************)
education_keywords ==
    <<<<"phd", 100>>, <<"doctorate", 100>>, <<"ph.d", 100>>, <<"masters", 80>>,
      <<"master", 80>>, <<"msc", 80>>, <<"ms", 80>>, <<"mba", 70>>, <<"bachelors", 60>>,
      <<"bachelor", 60>>, <<"bsc", 60>>, <<"bs", 60>>, <<"degree", 40>>>>

\* the rank of the last education keyword found, whatever its rank
LastEducation(text_lower, i, best) ==
    LET F == {k \in i..Len(education_keywords) : Contains(text_lower, education_keywords[k][1])}
    IN  IF F = {} THEN best ELSE education_keywords[Max(F)][2]

RECURSIVE HighestEducation(_, _, _)
\* the loop "for edu, score in education_keywords.items()" from entry i on
HighestEducation(text_lower, i, best) ==
    IF i > Len(education_keywords) THEN best
    ELSE HighestEducation(text_lower, i + 1,
            IF Contains(text_lower, education_keywords[i][1]) /\ education_keywords[i][2] > best
            THEN education_keywords[i][2] ELSE best)

\* an education score that is full marks whatever the texts hold
EducationAlwaysFull(resume_text_in, jd_text_in) == QInt(100)

calculate_education_score(resume_text_in, jd_text_in) ==
    LET Score(resume_edu_score, jd_edu_score) ==
            IF resume_edu_score >= jd_edu_score THEN QInt(100)
            ELSE IF resume_edu_score > 0
            THEN QMul(Q(resume_edu_score, IF jd_edu_score > 1 THEN jd_edu_score ELSE 1), QInt(100))
            ELSE QInt(50)
    IN  Score(HighestEducation(Lower(resume_text_in), 1, 0),
              HighestEducation(Lower(jd_text_in), 1, 0))

(***************************************************************************)
(* calculate_weighted_score                                                *)
(***************************************************************************)
\* weights, in hundredths
WeightSkills == 50

WeightTfidf == 20

WeightKeywords == 15

WeightExperience == 10

WeightEducation == 5

\* "Calculate individual scores": the five calls, in order; the first that raises ends it
SubScores(self_all_skills, resume_text_in, jd_text_in) ==
    LET zero == [skill_score |-> QInt(0), tfidf_score |-> QInt(0),
                 keyword_score |-> QInt(0), experience_score |-> QInt(0),
                 education_score |-> QInt(0)]
        Five(tfidf, experience) ==
            IF tfidf.exc # NoException THEN Raise(tfidf.exc, zero)
            ELSE IF experience.exc # NoException THEN Raise(experience.exc, zero)
            ELSE Ok([skill_score      |-> calculate_skill_match_score(self_all_skills,
                                                                      resume_text_in, jd_text_in),
                     tfidf_score      |-> tfidf.val,
                     keyword_score    |-> calculate_keyword_density_score(resume_text_in, jd_text_in),
                     experience_score |-> experience.val,
                     education_score  |-> calculate_education_score(resume_text_in, jd_text_in)])
    IN  Five(calculate_tfidf_score(resume_text_in, jd_text_in),
             calculate_experience_score(resume_text_in, jd_text_in))

\* the sub-scores left as the five functions returned them
UnadjustedScores(sub) == sub

\* the floors of the two tiers exchanged
AdjustScoresSwapped(sub) ==
    IF QGe(sub.skill_score, QInt(90))
    THEN [sub EXCEPT !.tfidf_score = QMax(@, QInt(50)), !.keyword_score = QMax(@, QInt(40))]
    ELSE IF QGe(sub.skill_score, QInt(80))
    THEN [sub EXCEPT !.tfidf_score = QMax(@, QInt(60)), !.keyword_score = QMax(@, QInt(50))]
    ELSE sub

\* "Apply bonuses and adjustments": the floors of tfidf_score and keyword_score
AdjustScores(sub) ==
    IF QGe(sub.skill_score, QInt(90))
    THEN [sub EXCEPT !.tfidf_score = QMax(@, QInt(60)), !.keyword_score = QMax(@, QInt(50))]
    ELSE IF QGe(sub.skill_score, QInt(80))
    THEN [sub EXCEPT !.tfidf_score = QMax(@, QInt(50)), !.keyword_score = QMax(@, QInt(40))]
    ELSE sub

WeightedSum(sub) ==
    QAdd(QAdd(QAdd(QAdd(QMul(sub.skill_score, Q(WeightSkills, 100)),
                        QMul(sub.tfidf_score, Q(WeightTfidf, 100))),
                   QMul(sub.keyword_score, Q(WeightKeywords, 100))),
              QMul(sub.experience_score, Q(WeightExperience, 100))),
         QMul(sub.education_score, Q(WeightEducation, 100)))

\* the bonus added without the cap at 100
UncappedBonus(skill_score, final_score) ==
    IF QGe(skill_score, QInt(95)) THEN QAdd(final_score, QInt(8))
    ELSE IF QGe(skill_score, QInt(85)) THEN QAdd(final_score, QInt(5))
    ELSE IF QGe(skill_score, QInt(75)) THEN QAdd(final_score, QInt(3))
    ELSE final_score

\* "Apply skill bonus"
SkillBonus(skill_score, final_score) ==
    IF QGe(skill_score, QInt(95)) THEN QMin(QAdd(final_score, QInt(8)), QInt(100))
    ELSE IF QGe(skill_score, QInt(85)) THEN QMin(QAdd(final_score, QInt(5)), QInt(100))
    ELSE IF QGe(skill_score, QInt(75)) THEN QMin(QAdd(final_score, QInt(3)), QInt(100))
    ELSE final_score

\* the final floor left out
NoSkillFloor(skill_score, final_score) == final_score

\* "Ensure minimum score based on skill match"
SkillFloor(skill_score, final_score) ==
    IF QGe(skill_score, QInt(90)) THEN QMax(final_score, QInt(75))
    ELSE IF QGe(skill_score, QInt(80)) THEN QMax(final_score, QInt(70))
    ELSE IF QGe(skill_score, QInt(70)) THEN QMax(final_score, QInt(65))
    ELSE final_score

\* final_score before "return round(final_score, 1)"
FinalScore(sub) ==
    SkillFloor(sub.skill_score, SkillBonus(sub.skill_score, WeightedSum(AdjustScores(sub))))

\* x is exactly half-way between two multiples of 1/10
IsTie(x) == (x.n * 20) % x.d = 0 /\ (x.n * 10) % x.d # 0

\* return round(final_score, 1).  The products with 0.15, 0.05, ... are inexact in
\* binary, so the float of an exact tie lies on either side of it: tie_up says which.
RoundFinal(final_score) ==
    IF IsTie(final_score)
    THEN Q((final_score.n * 10) \div final_score.d + (IF tie_up THEN 1 ELSE 0), 10)
    ELSE Round1(final_score)

\* the body of calculate_weighted_score after the five sub-scores
CombineScores(sub) == RoundFinal(FinalScore(sub))

\* one execution of calculate_weighted_score: its five locals, and what it returns or raises
RunWeightedScore(self_all_skills, resume_text_in, jd_text_in) ==
    LET Run(sub) ==
            [exc |-> sub.exc,
             sub |-> sub.val,
             val |-> IF sub.exc # NoException THEN QInt(0) ELSE CombineScores(sub.val)]
    IN  Run(SubScores(self_all_skills, resume_text_in, jd_text_in))

calculate_weighted_score(self_all_skills, resume_text_in, jd_text_in) ==
    LET Outcome(run) == [exc |-> run.exc, val |-> run.val]
    IN  Outcome(RunWeightedScore(self_all_skills, resume_text_in, jd_text_in))

(***************************************************************************)
(* get_detailed_analysis                                                   *)
(***************************************************************************)
\* code points in increasing order, of the characters of the skill terms and names
CodePointOrder ==
    " #&+-./0123456789ABCDEFGHIJKLMNOPQRSTUVWXYZabcdefghijklmnopqrstuvwxyz"

Ord(c) == CHOOSE k \in 1..Len(CodePointOrder) : SubSeq(CodePointOrder, k, k) = c

RECURSIVE StrLess(_, _)
\* a < b on str
StrLess(a, b) ==
    IF b = "" THEN FALSE
    ELSE IF a = "" THEN TRUE
    ELSE IF Ch(a, 1) # Ch(b, 1) THEN Ord(Ch(a, 1)) < Ord(Ch(b, 1))
    ELSE StrLess(SubSeq(a, 2, Len(a)), SubSeq(b, 2, Len(b)))

\* a list that keeps one element of S only
ListOfOne(S) == IF S = {} THEN <<>> ELSE <<CHOOSE x \in S : TRUE>>

RECURSIVE SortedList(_)
\* sorted(list(S))
SortedList(S) ==
    IF S = {} THEN <<>>
    ELSE LET least == CHOOSE x \in S : \A y \in S \ {x} : StrLess(x, y)
         IN  <<least>> \o SortedList(S \ {least})

get_detailed_analysis(self_all_skills, resume_text_in, jd_text_in) ==
    LET Analysis(resume_skills, jd_skills, overall, sub) ==
            LET matched_skills == resume_skills \cap jd_skills
                missing_skills == jd_skills \ resume_skills
                extra_skills   == resume_skills \ jd_skills
            IN  IF overall.exc # NoException
                THEN Raise(overall.exc,
                           [overall_score |-> QInt(0),
                            breakdown |-> [skill_match |-> QInt(0), content_similarity |-> QInt(0),
                                           keyword_density |-> QInt(0), experience |-> QInt(0),
                                           education |-> QInt(0)],
                            skills |-> [matched |-> <<>>, missing |-> <<>>, extra |-> <<>>]])
                ELSE Ok([overall_score |-> overall.val,
                         breakdown |-> [skill_match        |-> Round1(sub.val.skill_score),
                                        content_similarity |-> Round1(sub.val.tfidf_score),
                                        keyword_density    |-> Round1(sub.val.keyword_score),
                                        experience         |-> Round1(sub.val.experience_score),
                                        education          |-> Round1(sub.val.education_score)],
                         skills |-> [matched |-> SortedList(matched_skills),
                                     missing |-> SortedList(missing_skills),
                                     extra   |-> SortedList(extra_skills)]])
    IN  Analysis(extract_skills(self_all_skills, resume_text_in),
                 extract_skills(self_all_skills, jd_text_in),
                 calculate_weighted_score(self_all_skills, resume_text_in, jd_text_in),
                 SubScores(self_all_skills, resume_text_in, jd_text_in))

\* module-level calculate_similarity_score(jd_text_in, resume_text_in): a fresh checker each call
calculate_similarity_score(jd_text_in, resume_text_in) ==
    LET Formatted(score) ==
            IF score.exc # NoException THEN Raise(score.exc, "")
            ELSE Ok(Format1f(score.val))
    IN  Formatted(calculate_weighted_score(InitAllSkills, resume_text_in, jd_text_in))

(***************************************************************************)
(* AIAnalysisEngine                                                        *)
(***************************************************************************)
\* __init__: self.critical_skills, categories in insertion order
InitCriticalSkills ==
    <<<<"python", "java", "javascript", "sql", "r">>,
      <<"machine learning", "deep learning", "tensorflow", "pytorch", "scikit-learn">>,
      <<"aws", "azure", "gcp", "google cloud">>,
      <<"spark", "hadoop", "kafka">>,
      <<"sql", "postgresql", "mongodb", "mysql">>>>

RECURSIVE Flatten(_, _)
Flatten(seqs, i) == IF i > Len(seqs) THEN <<>> ELSE seqs[i] \o Flatten(seqs, i + 1)

Filter(seq, Test(_)) == SelectSeq(seq, Test)

\* sum(text.count(term) ...) counting every occurrence three times
TripleCountAll(t, terms) ==
    LET CountOf(term) == 3 * Count(t, term) IN SumOver(CountOf, terms, 1)

CountAll(t, terms) == LET CountOf(term) == Count(t, term) IN SumOver(CountOf, terms, 1)

ContainsAny(t, terms) == \E i \in 1..Len(terms) : Contains(t, terms[i])

\* \+?\s*years?\s+(?:of\s+)?experience from position p on
FollowsYearsExperience(t, p) ==
    LET p1 == IF Ch(t, p) = "+" THEN p + 1 ELSE p
        p2 == SkipSpaces(t, p1)
        p3 == p2 + 4
        p4 == IF Ch(t, p3) = "s" THEN p3 + 1 ELSE p3
        p5 == SkipSpaces(t, p4)
        p6 == IF MatchAt(t, "of", p5) /\ IsSpace(Ch(t, p5 + 2)) THEN SkipSpaces(t, p5 + 2) ELSE p5
    IN  MatchAt(t, "year", p2) /\ IsSpace(Ch(t, p4)) /\ MatchAt(t, "experience", p6)

\* re.search(r'(\d+)\+?\s*years?\s+(?:of\s+)?experience', t): group(1) of the leftmost
\* match ("": no match)
SearchExperience(t) ==
    LET M == {r \in RunStarts(t) : FollowsYearsExperience(t, RunEnd(t, r) + 1)}
    IN  IF M = {} THEN "" ELSE SubSeq(t, Min(M), RunEnd(t, Min(M)))

StrengthCap == 6

WeaknessCap == 5

RecommendationCap == 8

leadership_terms == <<"led", "managed", "directed", "coordinated", "mentored", "supervised">>

project_indicators == <<"project", "developed", "built", "implemented", "deployed", "created">>

advanced_skills == <<"deep learning", "neural network", "nlp", "computer vision", "transformer",
                     "bert", "gpt", "reinforcement learning">>

high_edu == <<"phd", "ph.d", "masters", "master", "msc">>

cloud_platforms == <<"aws", "azure", "gcp", "google cloud">>

soft_skills == <<"communication", "collaboration", "problem-solving", "analytical",
                 "team player", "leadership">>

GenericStrengths ==
    <<"Relevant experience in the field",
      "Technical skills aligned with role requirements",
      "Professional background matches industry standards">>

\* the statements the nine checks of _identify_strengths append, in order (before the
\* fallback and the cut), or the ValueError of int(exp_match.group(1))
StrengthChecks(self_critical_skills, resume_text_in, jd_text_in) ==
    LET InBoth(skill) == Contains(resume_text_in, skill) /\ Contains(jd_text_in, skill)
        InResume(skill) == Contains(resume_text_in, skill)
        S1(matched_critical) ==
            IF matched_critical = <<>> THEN <<>>
            ELSE IF Len(matched_critical) >= 5
            THEN <<"Strong technical foundation with expertise in "
                   \o Join(Take(matched_critical, 5), ", ")>>
            ELSE <<"Proficiency in key technologies: " \o Join(matched_critical, ", ")>>
        S2(numbers) ==
            IF numbers >= 5
            THEN <<"Strong track record of quantifiable achievements and measurable impact">>
            ELSE IF numbers >= 3
            THEN <<"Demonstrates results with specific metrics and outcomes">>
            ELSE <<>>
        s3 == IF CountAll(resume_text_in, leadership_terms) >= 3
              THEN <<"Proven leadership and team management experience">> ELSE <<>>
        s4 == IF CountAll(resume_text_in, project_indicators) >= 5
              THEN <<"Extensive hands-on project experience and implementation skills">>
              ELSE <<>>
        S5(advanced_found) ==
            IF Len(advanced_found) >= 2
            THEN <<"Advanced expertise in cutting-edge technologies: "
                   \o Join(Take(advanced_found, 3), ", ")>>
            ELSE <<>>
        S6(years) ==
            IF years >= 5
            THEN <<"Substantial industry experience (" \o NatToStr(years) \o "+ years)">>
            ELSE IF years >= 3
            THEN <<"Solid professional experience (" \o NatToStr(years) \o " years)">>
            ELSE <<>>
        s7 == IF ContainsAny(resume_text_in, high_edu)
              THEN <<"Strong educational background in relevant field">> ELSE <<>>
        S8(cloud_found) ==
            IF cloud_found # <<>>
            THEN <<"Experience with cloud platforms: " \o Join(cloud_found, ", ")>> ELSE <<>>
        S9(soft_found) ==
            IF Len(soft_found) >= 2
            THEN <<"Well-rounded professional with strong "
                   \o Join(Take(soft_found, 2), " and ") \o " skills">>
            ELSE <<>>
        Checks(exp_match) ==
            IF exp_match # "" /\ IntRaises(exp_match) THEN Raise("ValueError", <<>>)
            ELSE Ok(S1(Filter(Flatten(self_critical_skills, 1), InBoth))
                    \o S2(FindNumbersCount(resume_text_in, FALSE, TRUE))
                    \o s3 \o s4
                    \o S5(Filter(advanced_skills, InResume))
                    \o (IF exp_match = "" THEN <<>> ELSE S6(IntValue(exp_match)))
                    \o s7
                    \o S8(Filter(cloud_platforms, InBoth))
                    \o S9(Filter(soft_skills, InResume)))
    IN  Checks(SearchExperience(resume_text_in))

\* "return strengths[:6]" left out
KeepAllStrengths(strengths) == strengths

\* "return strengths[:6]"
CutStrengths(strengths) == Take(strengths, StrengthCap)

\* "If no strengths found, add generic ones", then the cut
FinishStrengths(checks) == CutStrengths(IF checks = <<>> THEN GenericStrengths ELSE checks)

identify_strengths(self_critical_skills, resume_text_in, jd_text_in) ==
    LET Finish(checks) ==
            IF checks.exc # NoException THEN checks ELSE Ok(FinishStrengths(checks.val))
    IN  Finish(StrengthChecks(self_critical_skills, resume_text_in, jd_text_in))

cloud_terms == <<"aws", "azure", "gcp", "cloud">>

ml_terms == <<"machine learning", "deep learning", "neural network", "tensorflow", "pytorch">>

big_data == <<"spark", "hadoop", "kafka", "hive", "flink">>

strong_verbs == <<"led", "managed", "developed", "implemented", "architected",
                  "optimized", "engineered", "designed">>

cert_keywords == <<"certified", "certification", "certificate">>

GenericWeaknesses ==
    <<"Consider adding more specific project examples",
      "Could highlight leadership experiences more prominently",
      "May benefit from including relevant certifications">>

\* the statements the eight checks of _identify_weaknesses append, in order
WeaknessChecks(self_critical_skills, resume_text_in, jd_text_in) ==
    LET Missing(skill) == Contains(jd_text_in, skill) /\ ~Contains(resume_text_in, skill)
        W1(missing_critical) ==
            IF missing_critical = <<>> THEN <<>>
            ELSE IF Len(missing_critical) <= 2
            THEN <<"Missing experience with: " \o Join(missing_critical, ", ")>>
            ELSE <<"Limited exposure to key technologies: "
                   \o Join(Take(missing_critical, 3), ", ")>>
        w2 == IF FindNumbersCount(resume_text_in, FALSE, FALSE) < 3
              THEN <<"Could strengthen resume with more quantifiable achievements and metrics">>
              ELSE <<>>
        w3 == IF ContainsAny(jd_text_in, cloud_terms) /\ ~ContainsAny(resume_text_in, cloud_terms)
              THEN <<"Limited cloud platform experience (AWS, Azure, or GCP)">> ELSE <<>>
        w4 == IF ContainsAny(jd_text_in, ml_terms) /\ ~ContainsAny(resume_text_in, ml_terms)
              THEN <<"Insufficient machine learning or AI experience">> ELSE <<>>
        w5 == IF ContainsAny(jd_text_in, big_data) /\ ~ContainsAny(resume_text_in, big_data)
              THEN <<"Limited big data processing experience">> ELSE <<>>
        w6 == IF CountAll(resume_text_in, strong_verbs) < 5
              THEN <<"Could use stronger action verbs to describe accomplishments">> ELSE <<>>
        W7(word_count) ==
            IF word_count < 400
            THEN <<"Resume appears brief - consider adding more detail about experiences">>
            ELSE IF word_count > 1500
            THEN <<"Resume is lengthy - focus on most relevant experiences">>
            ELSE <<>>
        w8 == IF ContainsAny(jd_text_in, cert_keywords) /\ ~ContainsAny(resume_text_in, cert_keywords)
              THEN <<"No relevant certifications mentioned">> ELSE <<>>
    IN  W1(Filter(Flatten(self_critical_skills, 1), Missing))
        \o w2 \o w3 \o w4 \o w5 \o w6 \o W7(WordCount(resume_text_in)) \o w8

\* "return weaknesses[:5]"
CutWeaknesses(weaknesses) == Take(weaknesses, WeaknessCap)

\* "If no weaknesses found, add constructive ones", then the cut
FinishWeaknesses(checks) == CutWeaknesses(IF checks = <<>> THEN GenericWeaknesses ELSE checks)

identify_weaknesses(self_critical_skills, resume_text_in, jd_text_in) ==
    FinishWeaknesses(WeaknessChecks(self_critical_skills, resume_text_in, jd_text_in))

\* the statements _generate_recommendations appends, in order (before the cut)
RecommendationChecks(resume_text_in, jd_text_in, match_score_in, weaknesses) ==
    LET r1 == IF QLt(match_score_in, QInt(60))
              THEN <<"Strongly consider tailoring your resume to highlight skills matching this specific role",
                     "Add more keywords from the job description naturally into your experience descriptions">>
              ELSE IF QLt(match_score_in, QInt(75))
              THEN <<"Good foundation - focus on emphasizing your most relevant experiences",
                     "Add specific examples that demonstrate required skills in action">>
              ELSE <<"Strong match! Ensure your top achievements are prominently featured",
                     "Consider adding a summary section highlighting your key qualifications">>
        FromWeaknesses(weakness_text) ==
            (IF Contains(weakness_text, "quantifiable") \/ Contains(weakness_text, "metrics")
             THEN <<"Add numbers and metrics to your achievements (e.g., '25% improvement', 'saved $50K', 'led team of 8')">>
             ELSE <<>>)
            \o (IF Contains(weakness_text, "cloud")
                THEN <<"Highlight any cloud-related projects or experiences, even if limited">>
                ELSE <<>>)
            \o (IF Contains(weakness_text, "machine learning") \/ Contains(weakness_text, "ml")
                THEN <<"Include any ML coursework, projects, or self-learning experiences">>
                ELSE <<>>)
            \o (IF Contains(weakness_text, "action verbs")
                THEN <<"Start bullet points with strong action verbs: Led, Engineered, Architected, Optimized, Implemented">>
                ELSE <<>>)
            \o (IF Contains(weakness_text, "certifications")
                THEN <<"Consider obtaining relevant certifications (AWS, Azure, TensorFlow, etc.) to strengthen your profile">>
                ELSE <<>>)
        r8 == <<"Ensure your LinkedIn profile matches your resume for consistency">>
        r9 == IF FindNumbersCount(resume_text_in, FALSE, FALSE) < 5
              THEN <<"Quantify your impact wherever possible - numbers grab attention">>
              ELSE <<>>
        r10 == <<"Use standard section headers (Experience, Education, Skills) for ATS compatibility">>
        General(sofar) ==
            sofar
            \o (IF ~Contains(Join(sofar, " "), "keywords")
                THEN <<"Naturally incorporate industry-specific keywords from the job posting">>
                ELSE <<>>)
            \o r8 \o r9 \o r10
    IN  General(r1 \o FromWeaknesses(Lower(Join(weaknesses, " "))))

\* a cut after four recommendations
CutToFour(recommendations) == Take(recommendations, 4)

\* "return recommendations[:8]"
CutRecommendations(recommendations) == Take(recommendations, RecommendationCap)

generate_recommendations(resume_text_in, jd_text_in, match_score_in, weaknesses) ==
    CutRecommendations(RecommendationChecks(resume_text_in, jd_text_in, match_score_in, weaknesses))

NoFeedback == [strengths |-> <<>>, weaknesses |-> <<>>, recommendations |-> <<>>]

\* one execution of analyze_resume: what its checks appended (fired), and what it returns
\* or raises
RunAnalyzeResume(self_critical_skills, resume_text_in, jd_text_in, match_score_in) ==
    LET Outcome(s_checks, w_checks, weaknesses, r_checks) ==
            IF s_checks.exc # NoException
            THEN [exc |-> s_checks.exc, fired |-> NoFeedback, val |-> NoFeedback]
            ELSE [exc |-> NoException,
                  fired |-> [strengths |-> s_checks.val, weaknesses |-> w_checks,
                             recommendations |-> r_checks],
                  val |-> [strengths |-> FinishStrengths(s_checks.val),
                           weaknesses |-> weaknesses,
                           recommendations |-> CutRecommendations(r_checks)]]
        Run(resume_lower, jd_lower) ==
            LET Recommend(s_checks, w_checks, weaknesses) ==
                    Outcome(s_checks, w_checks, weaknesses,
                            RecommendationChecks(resume_lower, jd_lower, match_score_in,
                                                 weaknesses))
                Weak(s_checks, w_checks) ==
                    Recommend(s_checks, w_checks, FinishWeaknesses(w_checks))
            IN  Weak(StrengthChecks(self_critical_skills, resume_lower, jd_lower),
                     WeaknessChecks(self_critical_skills, resume_lower, jd_lower))
    IN  Run(Lower(resume_text_in), Lower(jd_text_in))

analyze_resume(self_critical_skills, resume_text_in, jd_text_in, match_score_in) ==
    LET Outcome(run) == [exc |-> run.exc, val |-> run.val]
    IN  Outcome(RunAnalyzeResume(self_critical_skills, resume_text_in, jd_text_in, match_score_in))

(***************************************************************************)
(* improved_metadata_extractor.  A pattern that is a sequence of greedy,   *)
(* bounded repetitions of character classes is matched as re matches it:   *)
(* each repetition takes the most characters the rest of the pattern       *)
(* still matches after.                                                    *)
(***************************************************************************)
NotFound == "Not found"

NotSpecified == "Not specified"

LowerSet == CharsOf(LowerLetters)

LetterSet == LowerSet \cup UpperSet

AlnumSet == LetterSet \cup DigitSet

\* [-.\s]
PhoneSeparators == {"-", "."} \cup SpaceSet

\* cls{lo,hi}
Rep(cls, lo, hi) == [cls |-> cls, lo |-> lo, hi |-> hi]

\* cls?
Opt(cls) == Rep(cls, 0, 1)

\* the number of characters of cls from position p on, hi at most
RunLen(t, p, cls, hi) ==
    LET Upto(last) == Min({k \in p..last : Ch(t, k) \notin cls} \cup {last + 1}) - p
    IN  Max({0, Upto(Min({p + hi - 1, Len(t)}))})

RECURSIVE MatchSeq(_, _, _, _)
\* the position after the match of pat[i], pat[i+1], ... at position p (0: no match)
MatchSeq(t, p, pat, i) ==
    IF i > Len(pat) THEN p
    ELSE LET Longest(counts) ==
                 IF counts = {} THEN 0 ELSE MatchSeq(t, p + Max(counts), pat, i + 1)
         IN  Longest({c \in pat[i].lo..RunLen(t, p, pat[i].cls, pat[i].hi) :
                         MatchSeq(t, p + c, pat, i + 1) > 0})

\* re.search(pat, t): where the leftmost match starts and the position after it
\* (<<0, 0>>: no match)
SearchSeq(t, pat) ==
    LET Matches(s) == MatchSeq(t, s, pat, 1) > 0
        At(s) == <<s, MatchSeq(t, s, pat, 1)>>
    IN  IF \E s \in 1..Len(t) : Matches(s)
        THEN At(CHOOSE s \in 1..Len(t) : Matches(s) /\ \A r \in 1..(s - 1) : ~Matches(r))
        ELSE <<0, 0>>

\* text.split('\n')
Lines(t) ==
    LET NL == {k \in 1..Len(t) : Ch(t, k) = "\n"}
        Cuts == {0} \cup NL
        NextCut(c) == Min({k \in NL \cup {Len(t) + 1} : k > c})
        Start[n \in 1..(Cardinality(NL) + 1)] ==
            IF n = 1 THEN 0 ELSE NextCut(Start[n - 1])
    IN  [n \in 1..(Cardinality(NL) + 1) |-> SubSeq(t, Start[n] + 1, NextCut(Start[n]) - 1)]

\* str.strip()
Strip(s) ==
    LET Inked == {k \in 1..Len(s) : ~IsSpace(Ch(s, k))}
    IN  IF Inked = {} THEN "" ELSE SubSeq(s, Min(Inked), Max(Inked))

\* re.sub(r'\s+', ' ', s)
CollapseSpaces(s) ==
    LET Emit(i) == IF ~IsSpace(Ch(s, i)) THEN SubSeq(s, i, i)
                   ELSE IF IsSpace(Ch(s, i - 1)) THEN "" ELSE " "
    IN  MapRange(Emit, s, 1, Len(s))

\* [A-Za-z0-9._%+-]
EmailLocalSet == AlnumSet \cup {".", "_", "%", "+", "-"}

\* [A-Za-z0-9.-]
EmailDomainSet == AlnumSet \cup {".", "-"}

\* [A-Z|a-z]
EmailTldSet == LetterSet \cup {"|"}

\* the position after the match of email_pattern that starts at s (0: no match):
\* the local part runs up to the '@', the domain up to the last '.' that a top-level
\* part of two or more characters, ending at a \b, follows
EmailMatchEnd(t, s) ==
    LET FromAt(a) ==
            LET d == RunLen(t, a + 1, EmailDomainSet, Len(t))
                TldEnd(k) ==
                    LET Ends(m) == {e \in (k + 2)..(k + m) : WordBoundary(t, e + 1)}
                        Last(E) == IF E = {} THEN 0 ELSE Max(E)
                    IN  Last(Ends(RunLen(t, k + 1, EmailTldSet, Len(t))))
                Pick(K) == IF K = {} THEN 0 ELSE TldEnd(Max(K)) + 1
            IN  Pick({k \in (a + 2)..(a + d) : Ch(t, k) = "." /\ TldEnd(k) > 0})
        FromStart(n) ==
            IF n >= 1 /\ Ch(t, s + n) = "@" THEN FromAt(s + n) ELSE 0
    IN  IF WordBoundary(t, s) THEN FromStart(RunLen(t, s, EmailLocalSet, Len(t))) ELSE 0

extract_email(text) ==
    LET First(S) == IF S = {} THEN NotFound
                    ELSE SubSeq(text, Min(S), EmailMatchEnd(text, Min(S)) - 1)
    IN  First({s \in 1..Len(text) : EmailMatchEnd(text, s) > 0})

\* the five phone_patterns, in order
phone_patterns ==
    <<<<Opt({"+"}), Rep(DigitSet, 1, 3), Opt(PhoneSeparators), Opt({"("}), Rep(DigitSet, 3, 3),
        Opt({")"}), Opt(PhoneSeparators), Rep(DigitSet, 3, 3), Opt(PhoneSeparators),
        Rep(DigitSet, 4, 4)>>,
      <<Opt({"("}), Rep(DigitSet, 3, 3), Opt({")"}), Opt(PhoneSeparators), Rep(DigitSet, 3, 3),
        Opt(PhoneSeparators), Rep(DigitSet, 4, 4)>>,
      <<Rep(DigitSet, 3, 3), Opt(PhoneSeparators), Rep(DigitSet, 3, 3), Opt(PhoneSeparators),
        Rep(DigitSet, 4, 4)>>,
      <<Rep({"+"}, 1, 1), Rep(DigitSet, 10, 15)>>,
      <<Rep(DigitSet, 10, 10)>>>>

RECURSIVE PhoneFrom(_, _)
\* the loop "for pattern in phone_patterns" from pattern i on
PhoneFrom(text, i) ==
    IF i > Len(phone_patterns) THEN NotFound
    ELSE LET Found(m) == IF m[1] = 0 THEN PhoneFrom(text, i + 1)
                         ELSE CollapseSpaces(SubSeq(text, m[1], m[2] - 1))
         IN  Found(SearchSeq(text, phone_patterns[i]))

extract_phone(text) == PhoneFrom(text, 1)

\* [A-Z][a-z]+ at position s: the position of its last letter (0: no match)
CapWordEnd(t, s) ==
    LET End(n) == IF Ch(t, s) \in UpperSet /\ n >= 1 THEN s + n ELSE 0
    IN  End(RunLen(t, s + 1, LowerSet, Len(t)))

RECURSIVE CapEnds(_, _)
\* [A-Z][a-z]+(?:\s[A-Z][a-z]+)* at position s: where it can end, after each word
CapEnds(t, s) ==
    LET From(e) == IF e = 0 THEN {}
                   ELSE {e} \cup (IF IsSpace(Ch(t, e + 1)) THEN CapEnds(t, e + 2) ELSE {})
    IN  From(CapWordEnd(t, s))

NoLocation == [city |-> "", state |-> "", next |-> 0]

\* the match of location_patterns[i] that starts at s: its two groups and the position
\* after it (next = 0: no match).  The city runs over all its words up to the comma;
\* the state is two capitals (i = 1) or the most words that end at a \b (i = 2).
LocationMatchAt(t, s, i) ==
    LET State(city_end, q) ==
            LET Two == IF Ch(t, q) \in UpperSet /\ Ch(t, q + 1) \in UpperSet
                          /\ WordBoundary(t, q + 2)
                       THEN q + 1 ELSE 0
                Words(E) == IF E = {} THEN 0 ELSE Max(E)
                Found(state_end) ==
                    IF state_end = 0 THEN NoLocation
                    ELSE [city |-> SubSeq(t, s, city_end), state |-> SubSeq(t, q, state_end),
                          next |-> state_end + 1]
            IN  Found(IF i = 1 THEN Two
                      ELSE Words({e \in CapEnds(t, q) : WordBoundary(t, e + 1)}))
        City(E) ==
            IF E = {} \/ ~WordBoundary(t, s) THEN NoLocation
            ELSE IF Ch(t, Max(E) + 1) # "," THEN NoLocation
            ELSE State(Max(E), Max(E) + 2 + RunLen(t, Max(E) + 2, SpaceSet, Len(t)))
    IN  City(CapEnds(t, s))

\* the leftmost match of location_patterns[i] that starts at from or later
LocationSearch(t, i, from) ==
    LET First(S) == IF S = {} THEN NoLocation ELSE LocationMatchAt(t, Min(S), i)
    IN  First({s \in from..Len(t) : LocationMatchAt(t, s, i).next > 0})

\* the city without its state
CityOnly(m) == m.city

\* f"{city}, {state}"
FormatLocation(m) == m.city \o ", " \o m.state

location_keywords == <<"location:", "address:", "residence:", "based in:", "location">>

\* str.isdigit()
IsDigitStr(s) == s # "" /\ AllDigits(s, 1, Len(s))

RECURSIVE LocationInText(_, _, _)
\* "search entire text": the matches of pattern i from position from on, then the
\* next pattern; the first match whose city passes the filter
LocationInText(text, i, from) ==
    IF i > 2 THEN NotFound
    ELSE LET Try(m) ==
                 IF m.next = 0 THEN LocationInText(text, i + 1, 1)
                 ELSE IF Len(m.city) > 2 /\ ~IsDigitStr(m.city) THEN FormatLocation(m)
                 ELSE LocationInText(text, i, m.next)
         IN  Try(LocationSearch(text, i, from))

RECURSIVE LocationNearKeyword(_, _, _)
\* "find location near keywords": the lines from line i on
LocationNearKeyword(text, lines, i) ==
    IF i > Len(lines) THEN LocationInText(text, 1, 1)
    ELSE IF ~ContainsAny(Lower(lines[i]), location_keywords)
    THEN LocationNearKeyword(text, lines, i + 1)
    ELSE LET Second(m) == IF m.next > 0 THEN FormatLocation(m)
                          ELSE LocationNearKeyword(text, lines, i + 1)
             Try(search_text) ==
                 LET First(m) == IF m.next > 0 THEN FormatLocation(m)
                                 ELSE Second(LocationSearch(search_text, 2, 1))
                 IN  First(LocationSearch(search_text, 1, 1))
         IN  Try(Join(SubSeq(lines, i, Min({i + 2, Len(lines)})), " "))

extract_location(text) == LocationNearKeyword(text, Lines(text), 1)

\* re.match(r'^[A-Z][a-z]+(?:\s[A-Z][a-z]+){1,3}$', line): two to four capitalised
\* words, up to the end of the line
MatchesName(line) ==
    LET Whole(E) == E # {} /\ Max(E) = Len(line) /\ Cardinality(E) \in 2..4
    IN  Whole(CapEnds(line, 1))

RECURSIVE NameFrom(_, _)
\* the loop "for line in lines[:5]" from line i on
NameFrom(lines, i) ==
    IF i > Len(lines) \/ i > 5 THEN NotFound
    ELSE LET Try(line) ==
                 IF line = "" \/ Len(line) < 3 THEN NameFrom(lines, i + 1)
                 ELSE IF Contains(line, "@") \/ SearchSeq(line, phone_patterns[3])[1] > 0
                 THEN NameFrom(lines, i + 1)
                 ELSE IF MatchesName(line) THEN line
                 ELSE NameFrom(lines, i + 1)
         IN  Try(Strip(lines[i]))

extract_name(text) == NameFrom(Lines(text), 1)

education_levels ==
    <<<<"PhD", <<"phd", "ph.d", "doctorate", "doctoral">>>>,
      <<"Masters", <<"masters", "master", "msc", "ms", "mba", "ma">>>>,
      <<"Bachelors", <<"bachelors", "bachelor", "bsc", "bs", "ba", "beng", "btech">>>>>>

RECURSIVE FoundEducation(_, _)
\* the loop "for level, keywords in education_levels.items()" from level i on
FoundEducation(text_lower, i) ==
    IF i > Len(education_levels) THEN <<>>
    ELSE (IF ContainsAny(text_lower, education_levels[i][2])
          THEN <<education_levels[i][1]>> ELSE <<>>)
         \o FoundEducation(text_lower, i + 1)

extract_education(text) ==
    LET Result(found_education) ==
            IF found_education # <<>> THEN found_education ELSE <<NotSpecified>>
    IN  Result(FoundEducation(Lower(text), 1))

\* skills_list of extract_skills
skills_list ==
    <<"Python", "Java", "JavaScript", "C++", "C#", "R", "SQL", "Scala", "Go", "Ruby",
      "PHP", "Swift", "Kotlin", "TypeScript", "Rust", "MATLAB", "Perl", "Shell",
      "Machine Learning", "Deep Learning", "NLP", "Computer Vision", "TensorFlow",
      "PyTorch", "Keras", "Scikit-learn", "XGBoost", "LightGBM", "Neural Networks",
      "CNN", "RNN", "LSTM", "Transformer", "BERT", "GPT", "Reinforcement Learning",
      "Hadoop", "Spark", "Hive", "Kafka", "Flink", "Storm", "HBase", "Cassandra",
      "Airflow", "MapReduce",
      "AWS", "Azure", "GCP", "Google Cloud", "S3", "EC2", "Lambda", "SageMaker",
      "Docker", "Kubernetes", "Terraform",
      "PostgreSQL", "MySQL", "MongoDB", "Redis", "Elasticsearch", "DynamoDB",
      "Oracle", "SQL Server", "Snowflake", "Redshift", "BigQuery",
      "Tableau", "Power BI", "Looker", "Plotly", "Matplotlib", "Seaborn", "D3.js",
      "Django", "Flask", "FastAPI", "React", "Angular", "Vue.js", "Node.js", "Express",
      "Git", "GitHub", "GitLab", "Jenkins", "CI/CD", "Linux", "Bash", "Nginx",
      "Pandas", "NumPy", "SciPy", "Statistics", "A/B Testing", "Hypothesis Testing",
      "Time Series", "Forecasting", "Regression", "Classification", "Clustering">>

\* extract_skills of the metadata extractor: sorted(set(found_skills))
extract_metadata_skills(text) ==
    LET Found(text_lower) ==
            {skills_list[i] : i \in {k \in 1..Len(skills_list) :
                                        SearchWholeWord(text_lower, Lower(skills_list[k]))}}
    IN  SortedList(Found(Lower(text)))

\* \+?\s*years? from position p on: the position after it (0: no match)
AfterYears(t, p) ==
    LET Plus(p1) ==
            LET Spaces(p2) ==
                    IF ~MatchAt(t, "year", p2) THEN 0
                    ELSE IF Ch(t, p2 + 4) = "s" THEN p2 + 5 ELSE p2 + 4
            IN  Spaces(SkipSpaces(t, p1))
    IN  Plus(IF Ch(t, p) = "+" THEN p + 1 ELSE p)

\* re.findall of the three patterns of extract_experience_years: the digit strings
\* captured
ExperienceYearStrings(t) ==
    LET Run(r) == SubSeq(t, r, RunEnd(t, r))
        \* (\d+)\+?\s*years?\s+(?:of\s+)?experience
        first == {Run(r) : r \in {x \in RunStarts(t) :
                                     FollowsYearsExperience(t, RunEnd(t, x) + 1)}}
        \* experience[:\s]+(\d+)\+?\s*years?
        AfterWord(p) == p + 10 + RunLen(t, p + 10, SpaceSet \cup {":"}, Len(t))
        second == {Run(AfterWord(p)) : p \in {x \in Positions(t, "experience") :
                        /\ AfterWord(x) > x + 10
                        /\ IsDigit(Ch(t, AfterWord(x)))
                        /\ AfterYears(t, RunEnd(t, AfterWord(x)) + 1) > 0}}
        \* (\d+)\+?\s*years?\s+professional
        Professional(p) == p > 0 /\ IsSpace(Ch(t, p)) /\ MatchAt(t, "professional", SkipSpaces(t, p))
        third == {Run(r) : r \in {x \in RunStarts(t) :
                                     Professional(AfterYears(t, RunEnd(t, x) + 1))}}
    IN  first \cup second \cup third

NoYears == [found |-> FALSE, years |-> 0]

\* extract_experience_years: the highest number of years mentioned, None (NoYears) if
\* there is none, or the ValueError of int(y)
extract_experience_years(text) ==
    LET Result(years) ==
            IF \E y \in years : IntRaises(y) THEN Raise("ValueError", NoYears)
            ELSE IF years = {} THEN Ok(NoYears)
            ELSE Ok([found |-> TRUE, years |-> MaxInt(years)])
    IN  Result(ExperienceYearStrings(Lower(text)))

common_certs ==
    <<"AWS Certified", "Azure Certified", "GCP Certified", "PMP", "CISSP", "CFA", "CPA",
      "Certified Data Scientist", "TensorFlow Certificate", "Kubernetes Certified",
      "Docker Certified", "Scrum Master", "Six Sigma", "ITIL">>

extract_certifications(text) ==
    LET Found(text_lower) ==
            LET InText(cert) == Contains(text_lower, Lower(cert))
            IN  SelectSeq(common_certs, InText)
    IN  Found(Lower(text))

\* [A-Za-z\s&]
CompanySet == LetterSet \cup SpaceSet \cup {"&"}

company_suffixes == <<"Inc", "LLC", "Corp", "Ltd">>

\* of [-–—], the dash the texts explored here use
Dashes == {"-"}

NoCompany == [name |-> "", next |-> 0]

\* the match of (?:at|@)\s+([A-Z][A-Za-z\s&]+(?:Inc|LLC|Corp|Ltd|Company)?) that starts
\* at p: the name runs over every letter, space and '&' that follows its capital
CompanyAfterAt(t, p) ==
    LET Name(u) ==
            LET Run(n) == IF Ch(t, u) \in UpperSet /\ n >= 1
                          THEN [name |-> SubSeq(t, u, u + n), next |-> u + n + 1]
                          ELSE NoCompany
            IN  Run(RunLen(t, u + 1, CompanySet, Len(t)))
        Spaces(q) ==
            LET Skip(w) == IF w >= 1 THEN Name(q + w) ELSE NoCompany
            IN  Skip(RunLen(t, q, SpaceSet, Len(t)))
    IN  IF MatchAt(t, "at", p) THEN Spaces(p + 2)
        ELSE IF Ch(t, p) = "@" THEN Spaces(p + 1)
        ELSE NoCompany

\* the match of ([A-Z][A-Za-z\s&]+(?:Inc|LLC|Corp|Ltd))\s+[-–—] that starts at s: the
\* dash is the first character after the letters, spaces and '&' that follow s
CompanyBeforeDash(t, s) ==
    LET Suffixed(x, e) ==
            IF \E k \in 1..Len(company_suffixes) :
                  /\ MatchAt(t, company_suffixes[k], x - Len(company_suffixes[k]) + 1)
                  /\ x - Len(company_suffixes[k]) + 1 >= s + 2
            THEN [name |-> SubSeq(t, s, x), next |-> e + 2]
            ELSE NoCompany
        Run(e) ==
            IF e = s \/ Ch(t, e + 1) \notin Dashes \/ ~IsSpace(Ch(t, e)) THEN NoCompany
            ELSE Suffixed(Max({k \in s..e : ~IsSpace(Ch(t, k))}), e)
    IN  IF Ch(t, s) \in UpperSet THEN Run(s + RunLen(t, s + 1, CompanySet, Len(t)))
        ELSE NoCompany

RECURSIVE FindCompanies(_, _, _)
\* re.findall(pattern, text) from position from on: the names captured
FindCompanies(t, MatchAt_(_, _), from) ==
    LET Rest(S) ==
            LET Then(m) == {Strip(m.name)} \cup FindCompanies(t, MatchAt_, m.next)
            IN  IF S = {} THEN {} ELSE Then(MatchAt_(t, Min(S)))
    IN  Rest({p \in from..Len(t) : MatchAt_(t, p).next > 0})

\* set(companies), the names stripped
CompanyNames(text) ==
    FindCompanies(text, CompanyAfterAt, 1) \cup FindCompanies(text, CompanyBeforeDash, 1)

\* the lists that list(S) can be: the elements of S in any order
ListsOf(S) ==
    {f \in [1..Cardinality(S) -> S] : \A i, j \in 1..Cardinality(S) : f[i] = f[j] => i = j}

\* extract_companies: list(set(companies))[:5], the lists it can return
extract_companies(text) == {Take(l, 5) : l \in ListsOf(CompanyNames(text))}

NoMetadata ==
    [name |-> "", email |-> "", phone |-> "", location |-> "", skills |-> <<>>,
     experience_years |-> NoYears, education |-> <<>>, certifications |-> <<>>,
     companies |-> <<>>]

\* get_comprehensive_metadata(text), companies being what extract_companies returned
get_comprehensive_metadata(text, companies) ==
    LET Record(experience_years) ==
            IF experience_years.exc # NoException THEN Raise(experience_years.exc, NoMetadata)
            ELSE Ok([name             |-> extract_name(text),
                     email            |-> extract_email(text),
                     phone            |-> extract_phone(text),
                     location         |-> extract_location(text),
                     skills           |-> extract_metadata_skills(text),
                     experience_years |-> experience_years.val,
                     education        |-> extract_education(text),
                     certifications   |-> extract_certifications(text),
                     companies        |-> companies])
    IN  Record(extract_experience_years(text))

extract_email_phone_location(text) ==
    IF text = "" THEN <<NotFound, NotFound, NotFound>>
    ELSE <<extract_email(text), extract_phone(text), extract_location(text)>>

(***************************************************************************)
(* The texts explored                                                      *)
(***************************************************************************)
RECURSIVE Repeat(_, _)
\* s * n
Repeat(s, n) == IF n = 0 THEN ""
                ELSE IF n = 1 THEN s
                ELSE Repeat(s, n \div 2) \o Repeat(s, n - n \div 2)

ScenarioResume == "Python, AWS, 6 years experience, led a team of 5, increased revenue 20%"

ScenarioJd == "Python, AWS, 5+ years experience"

\* fires eight of the nine strength checks
RichResume ==
    "Led, managed and mentored teams: 5% 6% 7% 8+ 9+. Python, Java, SQL, AWS, GCP. "
    \o "Project built, built, built, built. NLP, BERT, GPT. 3 years of experience. "
    \o "Masters. Communication, leadership. Certified."

\* over 400 words, six strong verbs, six percentages: no weakness check fires
LongResume == Repeat("led 5% ", 6) \o Repeat("a ", 394)

\* a number of more digits than int() converts
OverLimitResume == Repeat("9", IntMaxStrDigits + 1) \o " years experience"

ResumeFragments == <<"Python, AWS, 4 years experience", "MBA", "led 2 projects, improved sales 30%">>

\* one to MaxParts fragments, joined by ", "
JoinedFragments ==
    {Join(f, ", ") : f \in UNION {[1..k -> {ResumeFragments[i] : i \in 1..Len(ResumeFragments)}] :
                                    k \in 1..MaxParts}}

ShortResumes == {"", ScenarioResume, "PhD"}

MastersJd == "Python, Java, SQL and AWS; Masters degree; 5 years"

DemandingJd == "python spark machine learning on the cloud, certified, 8+ years"

JdTexts == {"", ScenarioJd, "Bachelor", MastersJd}

\* a resume of 400 words that names no skill, number, verb or certificate, and a job
\* text asking for cloud, neural networks and a certificate without naming a critical skill
PlainResume == Repeat("r ", 400)

UnnamedSkillsJd == "neural network on the cloud, certified"

\* the (resume, job description) pairs a session is about
Pairs == (ShortResumes \X JdTexts)
         \cup (JoinedFragments \X {MastersJd})
         \cup {<<RichResume, DemandingJd>>, <<RichResume, "">>, <<LongResume, "">>,
                <<"PhD", DemandingJd>>, <<OverLimitResume, ScenarioJd>>,
                <<"3 years", ScenarioJd>>, <<"2 yrs, built it", "">>, <<"0 years", "">>,
                <<PlainResume, UnnamedSkillsJd>>, <<ScenarioJd, ScenarioJd>>,
                <<"degree, python", "python, phd required">>}

\* scores handed to analyze_resume: one in each band of its score-based recommendations
MatchScores == {Q(599, 10), QInt(60), QInt(75)}

(***************************************************************************)
(* The session                                                             *)
(***************************************************************************)
NoSubScores == [skill_score |-> QInt(0), tfidf_score |-> QInt(0), keyword_score |-> QInt(0),
                experience_score |-> QInt(0), education_score |-> QInt(0)]

NoAnalysis == [overall_score |-> QInt(0),
               breakdown |-> [skill_match |-> QInt(0), content_similarity |-> QInt(0),
                              keyword_density |-> QInt(0), experience |-> QInt(0),
                              education |-> QInt(0)],
               skills |-> [matched |-> <<>>, missing |-> <<>>, extra |-> <<>>]]

\* a checker whose extract_skills consumed the terms it found in the resume
AllSkillsDrained(self_all_skills, resume_text_in, jd_text_in) ==
    self_all_skills \ extract_skills(self_all_skills, resume_text_in)

\* a checker that keeps of its terms those the job description of the call holds
AllSkillsOfJob(self_all_skills, resume_text_in, jd_text_in) ==
    extract_skills(self_all_skills, jd_text_in)

\* what a call on the session's checker leaves in self.all_skills: extract_skills reads
\* it and adds to its local found_skills only
AllSkillsAfter(self_all_skills, resume_text_in, jd_text_in) == self_all_skills

\* the exact final score of the pair is a tie, so that its float rounds either way
TiePossible(resume_text_in, jd_text_in) ==
    LET Tie(sub) == sub.exc = NoException /\ IsTie(FinalScore(sub.val))
    IN  Tie(SubScores(InitAllSkills, resume_text_in, jd_text_in))

Cleared ==
    /\ exc = NoException
    /\ sub_scores = NoSubScores
    /\ overall_score = QInt(0)
    /\ similarity = ""
    /\ analysis = NoAnalysis
    /\ match_score = QInt(0)
    /\ feedback = NoFeedback
    /\ fired = NoFeedback
    /\ repeat = FALSE

NoContact == <<"", "", "">>

\* the browser sessions that run the candidate portal's script at the same time
Sessions == {"s1", "s2"}

\* None, where a candidate id is expected
NoId == 0

\* a session before it submits: the locals of the submission loop unset
IdleSession ==
    [pc |-> "idle", candidate_name |-> "", candidate_email |-> "", files |-> 0,
     candidate_id |-> NoId, existing_id |-> NoId, saved |-> "none"]

\* the database init_database creates: its tables empty
DbEmpty ==
    /\ candidates = {}
    /\ screening_results = {}
    /\ sqlite_sequence = [candidates |-> 0, screening_results |-> 0]
    /\ clock = 0
    /\ sessions = [s \in Sessions |-> IdleSession]

MetaCleared ==
    /\ clean = ""
    /\ metadata = NoMetadata
    /\ contact = NoContact
    /\ found_skills = {}
    /\ DbEmpty

Init ==
    /\ all_skills = InitAllSkills
    /\ critical_skills = InitCriticalSkills
    /\ \E p \in Pairs : resume_text = p[1] /\ jd_text = p[2]
    /\ tie_up \in BOOLEAN
    /\ tie_up => TiePossible(resume_text, jd_text)
    /\ pc = "idle"
    /\ op = "none"
    /\ seen = {}
    /\ between = FALSE
    /\ Cleared
    /\ absent = {}
    /\ served = {}
    /\ MetaCleared

\* checker.calculate_weighted_score(resume_text, jd_text) on the session's checker
CalculateWeightedScore ==
    /\ pc = "idle"
    /\ UNCHANGED meta_vars
    /\ \E run \in {RunWeightedScore(all_skills, resume_text, jd_text)} :
          /\ pc' = IF run.exc = NoException THEN "returned" ELSE "raised"
          /\ exc' = run.exc
          /\ sub_scores' = run.sub
          /\ overall_score' = run.val
          /\ seen' = seen \cup {IF run.exc = NoException THEN Format1f(run.val) ELSE run.exc}
    /\ op' = "calculate_weighted_score"
    /\ repeat' = (seen # {})
    /\ all_skills' = AllSkillsAfter(all_skills, resume_text, jd_text)
    /\ UNCHANGED <<critical_skills, resume_text, jd_text, tie_up, similarity, analysis,
                   match_score, feedback, fired, between>>

\* checker.get_detailed_analysis(resume_text, jd_text) on the session's checker
GetDetailedAnalysis ==
    /\ pc = "idle"
    /\ UNCHANGED meta_vars
    /\ \E res \in {get_detailed_analysis(all_skills, resume_text, jd_text)} :
          /\ pc' = IF res.exc = NoException THEN "returned" ELSE "raised"
          /\ exc' = res.exc
          /\ analysis' = res.val
    /\ op' = "get_detailed_analysis"
    /\ repeat' = (seen # {})
    /\ between' = (seen # {})
    /\ all_skills' = AllSkillsAfter(all_skills, resume_text, jd_text)
    /\ UNCHANGED <<critical_skills, resume_text, jd_text, tie_up, sub_scores, overall_score,
                   similarity, match_score, feedback, fired, seen>>

\* calculate_similarity_score(jd_text, resume_text): builds its own checker
CalculateSimilarityScore ==
    /\ pc = "idle"
    /\ UNCHANGED meta_vars
    /\ \E res \in {calculate_similarity_score(jd_text, resume_text)} :
          /\ pc' = IF res.exc = NoException THEN "returned" ELSE "raised"
          /\ exc' = res.exc
          /\ similarity' = res.val
          /\ seen' = seen \cup {IF res.exc = NoException THEN res.val ELSE res.exc}
    /\ op' = "calculate_similarity_score"
    /\ repeat' = (seen # {})
    /\ UNCHANGED <<all_skills, critical_skills, resume_text, jd_text, tie_up, sub_scores,
                   overall_score, analysis, match_score, feedback, fired, between>>

\* engine.analyze_resume(resume_text, jd_text, m) on the session's engine
AnalyzeResume ==
    /\ pc = "idle"
    /\ UNCHANGED meta_vars
    /\ \E m \in MatchScores :
          \E run \in {RunAnalyzeResume(critical_skills, resume_text, jd_text, m)} :
              /\ pc' = IF run.exc = NoException THEN "returned" ELSE "raised"
              /\ exc' = run.exc
              /\ match_score' = m
              /\ feedback' = run.val
              /\ fired' = run.fired
    /\ op' = "analyze_resume"
    /\ repeat' = (seen # {})
    /\ between' = (seen # {})
    /\ UNCHANGED <<all_skills, critical_skills, resume_text, jd_text, tie_up, sub_scores,
                   overall_score, similarity, analysis, seen>>

\* the caller takes the result (or the exception) and is ready for its next call
Return ==
    /\ pc \in {"returned", "raised"}
    /\ UNCHANGED meta_vars
    /\ pc' = "idle"
    /\ exc' = NoException
    /\ sub_scores' = NoSubScores
    /\ overall_score' = QInt(0)
    /\ similarity' = ""
    /\ analysis' = NoAnalysis
    /\ match_score' = QInt(0)
    /\ feedback' = NoFeedback
    /\ fired' = NoFeedback
    /\ repeat' = FALSE
    /\ op' = "none"
    /\ UNCHANGED <<all_skills, critical_skills, resume_text, jd_text, tie_up, seen, between>>

Next ==
    \/ CalculateWeightedScore
    \/ GetDetailedAnalysis
    \/ CalculateSimilarityScore
    \/ AnalyzeResume
    \/ Return

Spec == Init /\ [][Next]_vars

(***************************************************************************)
(* The combination step alone, on sub-scores drawn from the ranges the     *)
(* five sub-score functions return                                         *)
(***************************************************************************)
\* calculate_skill_match_score: 0 to 100, around every tier boundary
SkillGrid == {QInt(0), QInt(50), Q(699, 10), QInt(70), QInt(75), Q(799, 10), QInt(80),
              QInt(85), Q(899, 10), QInt(90), QInt(95), QInt(100)}

\* calculate_tfidf_score: 0 to min(similarity * 1.5, 0.95) * 100
TfidfGrid == {QInt(0), QInt(55), QInt(95)}

\* calculate_keyword_density_score: 0 to 100
KeywordGrid == {QInt(0), QInt(45), QInt(100)}

\* calculate_experience_score: 50 to 100
ExperienceGrid == {QInt(50), Q(615, 10), QInt(100)}

\* calculate_education_score: 40 to 100
EducationGrid == {QInt(40), Q(175, 2), QInt(100)}

SubScoreGrid ==
    [skill_score : SkillGrid, tfidf_score : TfidfGrid, keyword_score : KeywordGrid,
     experience_score : ExperienceGrid, education_score : EducationGrid]

InitCombine ==
    /\ all_skills = InitAllSkills
    /\ critical_skills = InitCriticalSkills
    /\ resume_text = ""
    /\ jd_text = ""
    /\ sub_scores \in SubScoreGrid
    /\ tie_up \in BOOLEAN
    /\ tie_up => IsTie(FinalScore(sub_scores))
    /\ pc = "scored"
    /\ op = "calculate_weighted_score"
    /\ exc = NoException
    /\ overall_score = QInt(0)
    /\ similarity = ""
    /\ analysis = NoAnalysis
    /\ match_score = QInt(0)
    /\ feedback = NoFeedback
    /\ fired = NoFeedback
    /\ seen = {}
    /\ repeat = FALSE
    /\ between = FALSE
    /\ absent = {}
    /\ served = {}
    /\ MetaCleared

\* calculate_weighted_score from "Apply bonuses and adjustments" to its return
Combine ==
    /\ pc = "scored"
    /\ UNCHANGED meta_vars
    /\ overall_score' = CombineScores(sub_scores)
    /\ pc' = "returned"
    /\ UNCHANGED <<all_skills, critical_skills, resume_text, jd_text, tie_up, op, exc,
                   sub_scores, similarity, analysis, match_score, feedback, fired, seen,
                   repeat, between>>

NextCombine == Combine

SpecCombine == InitCombine /\ [][NextCombine]_vars

(***************************************************************************)
(* The metadata extractor, and calls that pass None in place of a text     *)
(***************************************************************************)
ContactLine == "Contact: jane.doe@example.com, (415) 555-0100, San Francisco, CA"

FirstLines == <<"Jane Doe", "RESUME", "">>

ContactLines == <<ContactLine, "john_smith@mail.co.uk +1 212 555 0100", "no contact given">>

BodyLines == <<"MBA, PhD. 5 years of experience at Acme Corp - 2019",
               "Python and AWS Certified, worked at Data at Scale, Foo Bar Inc - 2 yrs",
               "",
               "Location: Austin, TX">>

\* a resume that names more companies than extract_companies returns
SixEmployers == "at Acme, at Beta, at Core, at Delta, at Echo, at Fox"

\* resumes of three lines, and the one-line resumes
MetadataTexts ==
    {FirstLines[i] \o "\n" \o ContactLines[j] \o "\n" \o BodyLines[k] :
        i \in 1..Len(FirstLines), j \in 1..Len(ContactLines), k \in 1..Len(BodyLines)}
    \cup {"", ContactLine, OverLimitResume,
          "\n\nJane Doe\nPython", "\n\n\n\n\nJane Doe\nPython",
          "RESUME\n\n\n\n\nJane Doe", "jane@x.io\n555-123-4567\nJane Doe\nJohn Smith",
          SixEmployers}

\* the texts that accompany a missing one
PresentTexts == {"", ScenarioResume, "PhD", ScenarioJd, MastersJd, ContactLine}

Arguments == {"resume_text", "jd_text"}

\* text.lower() and text.split('\n') when text is None: None has neither attribute
AttributeOfNone == "AttributeError"

\* preprocess_text(text), text being None when is_none
preprocess_text_of(is_none, text) == IF is_none THEN "" ELSE preprocess_text(text)

\* calculate_weighted_score, an argument being None when its name is in none:
\* calculate_skill_match_score hands first the resume, then the job description to
\* extract_skills, whose first statement is text.lower()
RunWeightedScoreOf(none, self_all_skills, resume_text_in, jd_text_in) ==
    IF none # {} THEN [exc |-> AttributeOfNone, sub |-> NoSubScores, val |-> QInt(0)]
    ELSE RunWeightedScore(self_all_skills, resume_text_in, jd_text_in)

\* get_detailed_analysis: it starts with the same two calls of extract_skills
get_detailed_analysis_of(none, self_all_skills, resume_text_in, jd_text_in) ==
    IF none # {} THEN Raise(AttributeOfNone, NoAnalysis)
    ELSE get_detailed_analysis(self_all_skills, resume_text_in, jd_text_in)

\* analyze_resume: it starts with resume_text.lower() and jd_text.lower()
RunAnalyzeResumeOf(none, self_critical_skills, resume_text_in, jd_text_in, m) ==
    IF none # {} THEN [exc |-> AttributeOfNone, val |-> NoFeedback, fired |-> NoFeedback]
    ELSE RunAnalyzeResume(self_critical_skills, resume_text_in, jd_text_in, m)

\* get_comprehensive_metadata(text): its first field is extract_name(text), which
\* starts with text.split('\n')
get_comprehensive_metadata_of(is_none, text, companies) ==
    IF is_none THEN Raise(AttributeOfNone, NoMetadata)
    ELSE get_comprehensive_metadata(text, companies)

\* extract_email_phone_location(text): "if not text" holds of None as of ""
extract_email_phone_location_of(is_none, text) ==
    IF is_none THEN <<NotFound, NotFound, NotFound>> ELSE extract_email_phone_location(text)

InitMetadata ==
    /\ all_skills = InitAllSkills
    /\ critical_skills = InitCriticalSkills
    /\ resume_text \in MetadataTexts
    /\ jd_text = ""
    /\ tie_up = FALSE
    /\ pc = "idle"
    /\ op = "none"
    /\ seen = {}
    /\ between = FALSE
    /\ Cleared
    /\ absent = {}
    /\ served = {}
    /\ MetaCleared

InitMissing ==
    /\ all_skills = InitAllSkills
    /\ critical_skills = InitCriticalSkills
    /\ absent \in (SUBSET Arguments) \ {{}}
    /\ served = {}
    /\ resume_text \in IF "resume_text" \in absent THEN {""} ELSE PresentTexts
    /\ jd_text \in IF "jd_text" \in absent THEN {""} ELSE PresentTexts
    /\ tie_up = FALSE
    /\ pc = "idle"
    /\ op = "none"
    /\ seen = {}
    /\ between = FALSE
    /\ Cleared
    /\ MetaCleared

\* checker.preprocess_text(text) on either argument
PreprocessText ==
    /\ pc = "idle"
    /\ \E a \in Arguments :
          clean' = preprocess_text_of(a \in absent,
                                      IF a = "resume_text" THEN resume_text ELSE jd_text)
    /\ pc' = "returned"
    /\ op' = "preprocess_text"
    /\ UNCHANGED <<all_skills, critical_skills, resume_text, jd_text, tie_up, exc, sub_scores,
                   overall_score, similarity, analysis, match_score, feedback, fired, seen,
                   repeat, between, absent, metadata, contact, served,
                   found_skills>>
    /\ UNCHANGED db_vars

\* checker.calculate_weighted_score(resume_text, jd_text), an absent argument being None
CalculateWeightedScoreOf ==
    /\ pc = "idle"
    /\ \E run \in {RunWeightedScoreOf(absent, all_skills, resume_text, jd_text)} :
          /\ pc' = IF run.exc = NoException THEN "returned" ELSE "raised"
          /\ exc' = run.exc
          /\ sub_scores' = run.sub
          /\ overall_score' = run.val
    /\ op' = "calculate_weighted_score"
    /\ UNCHANGED <<all_skills, critical_skills, resume_text, jd_text, tie_up, similarity,
                   analysis, match_score, feedback, fired, seen, repeat, between>>
    /\ UNCHANGED meta_vars

\* checker.get_detailed_analysis(resume_text, jd_text), an absent argument being None
GetDetailedAnalysisOf ==
    /\ pc = "idle"
    /\ \E res \in {get_detailed_analysis_of(absent, all_skills, resume_text, jd_text)} :
          /\ pc' = IF res.exc = NoException THEN "returned" ELSE "raised"
          /\ exc' = res.exc
          /\ analysis' = res.val
    /\ op' = "get_detailed_analysis"
    /\ UNCHANGED <<all_skills, critical_skills, resume_text, jd_text, tie_up, sub_scores,
                   overall_score, similarity, match_score, feedback, fired, seen, repeat,
                   between>>
    /\ UNCHANGED meta_vars

\* engine.analyze_resume(resume_text, jd_text, m), an absent argument being None
AnalyzeResumeOf ==
    /\ pc = "idle"
    /\ \E m \in MatchScores :
          \E run \in {RunAnalyzeResumeOf(absent, critical_skills, resume_text, jd_text, m)} :
              /\ pc' = IF run.exc = NoException THEN "returned" ELSE "raised"
              /\ exc' = run.exc
              /\ match_score' = m
              /\ feedback' = run.val
              /\ fired' = run.fired
    /\ op' = "analyze_resume"
    /\ UNCHANGED <<all_skills, critical_skills, resume_text, jd_text, tie_up, sub_scores,
                   overall_score, similarity, analysis, seen, repeat, between>>
    /\ UNCHANGED meta_vars

\* get_comprehensive_metadata(resume_text); the order in which list(set(companies))
\* lists the companies is not determined
GetComprehensiveMetadata ==
    /\ pc = "idle"
    /\ \E companies \in extract_companies(resume_text) :
          \E res \in {get_comprehensive_metadata_of("resume_text" \in absent, resume_text,
                                                    companies)} :
              /\ pc' = IF res.exc = NoException THEN "returned" ELSE "raised"
              /\ exc' = res.exc
              /\ metadata' = res.val
    /\ op' = "get_comprehensive_metadata"
    /\ UNCHANGED <<all_skills, critical_skills, resume_text, jd_text, tie_up, sub_scores,
                   overall_score, similarity, analysis, match_score, feedback, fired, seen,
                   repeat, between, absent, clean, contact, served,
                   found_skills>>
    /\ UNCHANGED db_vars

\* extract_email_phone_location(resume_text)
ExtractEmailPhoneLocation ==
    /\ pc = "idle"
    /\ contact' = extract_email_phone_location_of("resume_text" \in absent, resume_text)
    /\ pc' = "returned"
    /\ op' = "extract_email_phone_location"
    /\ UNCHANGED <<all_skills, critical_skills, resume_text, jd_text, tie_up, exc, sub_scores,
                   overall_score, similarity, analysis, match_score, feedback, fired, seen,
                   repeat, between, absent, clean, metadata, served,
                   found_skills>>
    /\ UNCHANGED db_vars

\* the caller takes the result (or the exception) of a call of this section
Collect ==
    /\ pc \in {"returned", "raised"}
    /\ pc' = "idle"
    /\ op' = "none"
    /\ exc' = NoException
    /\ sub_scores' = NoSubScores
    /\ overall_score' = QInt(0)
    /\ similarity' = ""
    /\ analysis' = NoAnalysis
    /\ match_score' = QInt(0)
    /\ feedback' = NoFeedback
    /\ fired' = NoFeedback
    /\ repeat' = FALSE
    /\ clean' = ""
    /\ metadata' = NoMetadata
    /\ contact' = NoContact
    /\ found_skills' = {}
    /\ UNCHANGED <<all_skills, critical_skills, resume_text, jd_text, tie_up, seen, between,
                   absent, served>>
    /\ UNCHANGED db_vars

NextMetadata ==
    \/ GetComprehensiveMetadata
    \/ ExtractEmailPhoneLocation
    \/ Collect

SpecMetadata == InitMetadata /\ [][NextMetadata]_vars

NextMissing ==
    \/ PreprocessText
    \/ CalculateWeightedScoreOf
    \/ GetDetailedAnalysisOf
    \/ AnalyzeResumeOf
    \/ GetComprehensiveMetadata
    \/ ExtractEmailPhoneLocation
    \/ Collect

SpecMissing == InitMissing /\ [][NextMissing]_vars

(***************************************************************************)
(* One checker and one engine shared by the calls for several pairs        *)
(***************************************************************************)
SharedPairs ==
    {<<ScenarioResume, ScenarioJd>>,
     <<"Python, AWS, 4 years experience, MBA", MastersJd>>,
     <<"PhD", "Bachelor">>}

InitShared ==
    /\ Init
    /\ <<resume_text, jd_text>> \in SharedPairs

\* the session turns to another pair, its checker having scored the present one
Switch ==
    /\ pc = "idle"
    /\ seen # {}
    /\ \E p \in SharedPairs \ {<<resume_text, jd_text>>} :
          /\ resume_text' = p[1]
          /\ jd_text' = p[2]
          /\ tie_up' \in {b \in BOOLEAN : b => TiePossible(p[1], p[2])}
    /\ served' = served \cup {<<resume_text, jd_text>>}
    /\ seen' = {}
    /\ between' = FALSE
    /\ UNCHANGED <<all_skills, critical_skills, pc, op, exc, sub_scores, overall_score,
                   similarity, analysis, match_score, feedback, fired, repeat, absent, clean,
                   metadata, contact, found_skills>>
    /\ UNCHANGED db_vars

NextShared ==
    \/ CalculateWeightedScore
    \/ GetDetailedAnalysis
    \/ CalculateSimilarityScore
    \/ AnalyzeResume
    \/ Return
    \/ Switch

SpecShared == InitShared /\ [][NextShared]_vars

(***************************************************************************)
(* extract_skills alone, on texts that hold one taxonomy term between the  *)
(* text's edges, punctuation, letters and digits                           *)
(***************************************************************************)
\* terms of the taxonomy as a text writes them: of one word, of several words, with
\* punctuation inside and at the end
WrittenTerms == {"python", "Python", "r", "c++", "C++", "machine learning", "ci/cd", "d3.js"}

BeforeTerm == {"", " ", "(", "x", "_"}

AfterTerm == {"", " ", ",", "s", "1", "_"}

SkillTexts ==
    {b \o w \o a : b \in BeforeTerm, w \in WrittenTerms, a \in AfterTerm}
    \cup {"", "python, Python and python", "java javascript", "machine  learning"}

InitSkills ==
    /\ all_skills = InitAllSkills
    /\ critical_skills = InitCriticalSkills
    /\ resume_text \in SkillTexts
    /\ jd_text = ""
    /\ tie_up = FALSE
    /\ pc = "idle"
    /\ op = "none"
    /\ seen = {}
    /\ between = FALSE
    /\ Cleared
    /\ absent = {}
    /\ served = {}
    /\ MetaCleared

\* checker.extract_skills(resume_text) on the session's checker
ExtractSkills ==
    /\ pc = "idle"
    /\ found_skills' = extract_skills(all_skills, resume_text)
    /\ pc' = "returned"
    /\ op' = "extract_skills"
    /\ UNCHANGED <<all_skills, critical_skills, resume_text, jd_text, tie_up, exc, sub_scores,
                   overall_score, similarity, analysis, match_score, feedback, fired, seen,
                   repeat, between, absent, clean, metadata, contact, served>>
    /\ UNCHANGED db_vars

NextSkills ==
    \/ ExtractSkills
    \/ Collect

SpecSkills == InitSkills /\ [][NextSkills]_vars

(***************************************************************************)
(* The database and the candidate portal.  Every method of ResumeDatabase  *)
(* opens its own connection and commits before it returns, so each call is *)
(* one transaction; the sessions' calls interleave between transactions.   *)
(* No connection issues PRAGMA foreign_keys, whose default is OFF: the     *)
(* FOREIGN KEY clause of screening_results is not enforced.  Table         *)
(* job_descriptions is left out: no statement on the other two reads it.   *)
(***************************************************************************)
\* the most ids the candidates table hands out
MaxCandidates == 3

\* the most ids the screening_results table hands out
MaxResults == 2

\* the seconds that pass
MaxClock == 1

\* the most resume files of one submission
MaxFiles == 2

\* what sessions type into the name and email fields
Names == {"Ann Lee"}

Emails == {"ann@x.io", "joann@x.io"}

RECURSIVE LikeFrom(_, _, _, _)
\* SQLite's LIKE from position i of the pattern and j of the text: '%' is any run of
\* characters, '_' any one character, and letters match whatever their case
LikeFrom(pattern, i, text, j) ==
    IF i > Len(pattern) THEN j > Len(text)
    ELSE IF Ch(pattern, i) = "%"
    THEN \E k \in j..(Len(text) + 1) : LikeFrom(pattern, i + 1, text, k)
    ELSE /\ j <= Len(text)
         /\ (Ch(pattern, i) = "_" \/ Lower(Ch(pattern, i)) = Lower(Ch(text, j)))
         /\ LikeFrom(pattern, i + 1, text, j + 1)

Like(text, pattern) == LikeFrom(pattern, 1, text, 1)

\* the rows whose email is the search term
EmailEquals(rows, search_term) == {c \in rows : c.email = search_term}

\* search_candidates: the rows WHERE name LIKE ? OR email LIKE ?, the pattern being
\* f"%{search_term}%"
search_candidates(rows, search_term) ==
    LET Found(search_pattern) ==
            {c \in rows : Like(c.name, search_pattern) \/ Like(c.email, search_pattern)}
    IN  Found("%" \o search_term \o "%")

\* ORDER BY uploaded_at DESC and iloc[0]: the rows that can come first, rows of the
\* same second standing in either order
FirstRows(existing) == {c \in existing : \A d \in existing : d.uploaded_at <= c.uploaded_at}

\* add_candidate: the id of the inserted row, or None on the IntegrityError of the
\* UNIQUE email
add_candidate(rows, sequence, email) ==
    IF \E c \in rows : c.email = email THEN NoId ELSE sequence.candidates + 1

\* the other variables, which no step of the portal or of the database changes
core_vars == <<all_skills, critical_skills, resume_text, jd_text, tie_up, pc, op, exc,
               sub_scores, overall_score, similarity, analysis, match_score, feedback, fired,
               seen, repeat, between, absent, clean, metadata, contact, served, found_skills>>

InitPortal ==
    /\ all_skills = InitAllSkills
    /\ critical_skills = InitCriticalSkills
    /\ resume_text = ""
    /\ jd_text = ""
    /\ tie_up = FALSE
    /\ pc = "idle"
    /\ op = "none"
    /\ seen = {}
    /\ between = FALSE
    /\ Cleared
    /\ absent = {}
    /\ served = {}
    /\ MetaCleared

\* the session presses "Submit Application(s)" with a name, an email and resume files
Submit(s) ==
    /\ sessions[s].pc = "idle"
    /\ \E name \in Names, email \in Emails, files \in 1..MaxFiles :
          sessions' = [sessions EXCEPT ![s] =
                          [pc |-> "add_candidate", candidate_name |-> name,
                           candidate_email |-> email, files |-> files,
                           candidate_id |-> NoId, existing_id |-> NoId, saved |-> "none"]]
    /\ UNCHANGED <<candidates, screening_results, sqlite_sequence, clock, core_vars>>

\* the loop turns to the next file, or ends
NextFile(session, saved) ==
    [session EXCEPT !.files = @ - 1, !.saved = saved,
                    !.pc = IF session.files > 1 THEN "add_candidate" ELSE "idle"]

\* candidate_id = db.add_candidate(name=candidate_name, email=candidate_email, ...)
AddCandidate(s) ==
    /\ sessions[s].pc = "add_candidate"
    /\ \E candidate_id \in {add_candidate(candidates, sqlite_sequence,
                                          sessions[s].candidate_email)} :
          /\ candidate_id <= MaxCandidates
          /\ IF candidate_id # NoId
             THEN /\ candidates' = candidates \cup
                         {[id |-> candidate_id, name |-> sessions[s].candidate_name,
                           email |-> sessions[s].candidate_email, uploaded_at |-> clock]}
                  /\ sqlite_sequence' = [sqlite_sequence EXCEPT !.candidates = candidate_id]
                  /\ sessions' = [sessions EXCEPT ![s].candidate_id = candidate_id,
                                                  ![s].pc = "add_screening_result"]
             ELSE /\ UNCHANGED <<candidates, sqlite_sequence>>
                  /\ sessions' = [sessions EXCEPT ![s].candidate_id = NoId,
                                                  ![s].pc = "search_candidates"]
    /\ UNCHANGED <<screening_results, clock, core_vars>>

\* extracting or scoring the next file raises (the ValueError of an over-long number,
\* an unreadable PDF): "except Exception" ends the loop
RaiseInLoop(s) ==
    /\ sessions[s].pc = "add_candidate"
    /\ sessions' = [sessions EXCEPT ![s].pc = "idle", ![s].files = 0]
    /\ UNCHANGED <<candidates, screening_results, sqlite_sequence, clock, core_vars>>

\* add_screening_result: INSERT INTO screening_results, whatever candidate_id is
InsertResult(candidate_id) ==
    /\ sqlite_sequence.screening_results < MaxResults
    /\ screening_results' = screening_results \cup
           {[id |-> sqlite_sequence.screening_results + 1, candidate_id |-> candidate_id]}
    /\ sqlite_sequence' = [sqlite_sequence EXCEPT !.screening_results = @ + 1]

\* "if candidate_id:" db.add_screening_result(candidate_id=candidate_id, ...)
AddScreeningResult(s) ==
    /\ sessions[s].pc = "add_screening_result"
    /\ InsertResult(sessions[s].candidate_id)
    /\ sessions' = [sessions EXCEPT ![s] = NextFile(@, "new")]
    /\ UNCHANGED <<candidates, clock, core_vars>>

\* "else:" existing = db.search_candidates(candidate_email) and, if it has a row,
\* existing_id = int(existing.iloc[0]['id']); the warning otherwise
SearchCandidates(s) ==
    /\ sessions[s].pc = "search_candidates"
    /\ \E existing \in {search_candidates(candidates, sessions[s].candidate_email)} :
          IF existing = {}
          THEN sessions' = [sessions EXCEPT ![s] = NextFile(@, "none")]
          ELSE \E first \in FirstRows(existing) :
                  sessions' = [sessions EXCEPT ![s].existing_id = first.id,
                                               ![s].pc = "add_screening_result_existing"]
    /\ UNCHANGED <<candidates, screening_results, sqlite_sequence, clock, core_vars>>

\* db.add_screening_result(candidate_id=existing_id, ...)
AddScreeningResultExisting(s) ==
    /\ sessions[s].pc = "add_screening_result_existing"
    /\ InsertResult(sessions[s].existing_id)
    /\ sessions' = [sessions EXCEPT ![s] = NextFile(@, "existing")]
    /\ UNCHANGED <<candidates, clock, core_vars>>

\* delete_candidate(candidate_id) by another session: both DELETEs, then the commit
DeleteCandidate ==
    /\ \E c \in candidates :
          /\ screening_results' = {r \in screening_results : r.candidate_id # c.id}
          /\ candidates' = {d \in candidates : d.id # c.id}
    /\ UNCHANGED <<sqlite_sequence, clock, sessions, core_vars>>

\* clear_all_data by another session; DELETE FROM leaves sqlite_sequence as it is
ClearAllData ==
    /\ screening_results' = {}
    /\ candidates' = {}
    /\ UNCHANGED <<sqlite_sequence, clock, sessions, core_vars>>

\* a second passes
Tick ==
    /\ clock < MaxClock
    /\ clock' = clock + 1
    /\ UNCHANGED <<candidates, screening_results, sqlite_sequence, sessions, core_vars>>

NextPortal ==
    \/ \E s \in Sessions : Submit(s)
    \/ \E s \in Sessions : RaiseInLoop(s)
    \/ \E s \in Sessions : AddCandidate(s)
    \/ \E s \in Sessions : AddScreeningResult(s)
    \/ \E s \in Sessions : SearchCandidates(s)
    \/ \E s \in Sessions : AddScreeningResultExisting(s)
    \/ DeleteCandidate
    \/ ClearAllData
    \/ Tick

SpecPortal == InitPortal /\ [][NextPortal]_vars

(***************************************************************************)
(* Properties                                                              *)
(***************************************************************************)
SeqToSet(seq) == {seq[i] : i \in 1..Len(seq)}

InRange(x) == QLe(QInt(0), x) /\ QLe(x, QInt(100))

\* x is a whole number of tenths
OneDecimal(x) == (x.n * 10) % x.d = 0

WeightedCallEnded == op = "calculate_weighted_score" /\ pc \in {"returned", "raised"}

\* C1: for every pair of strings, calculate_weighted_score returns a number in
\* [0,100] with at most one decimal place.
C1_ReturnsScoreInRange ==
    WeightedCallEnded =>
        pc = "returned" /\ InRange(overall_score) /\ OneDecimal(overall_score)

\* What does hold of the statement of C1: a score that is returned lies in [0,100]
\* and has at most one decimal place.
ReturnedScoreInRange ==
    (op = "calculate_weighted_score" /\ pc = "returned") =>
        InRange(overall_score) /\ OneDecimal(overall_score)

\* C2: for every pair of strings, calculate_weighted_score never raises to its
\* caller; a failure of the TF-IDF computation leaves a content-similarity
\* sub-score of 0 and the other four sub-scores are combined with their weights.
C2_NeverRaises ==
    WeightedCallEnded =>
        /\ exc = NoException
        /\ TfidfFit(preprocess_text(jd_text), preprocess_text(resume_text)).exc # NoException
              => /\ sub_scores.tfidf_score = QInt(0)
                 /\ overall_score = CombineScores(sub_scores)

\* C3: a skill-match sub-score >= 90 gives an overall score >= 75, one >= 80 an
\* overall score >= 70, one >= 70 an overall score >= 65, whatever the other four
\* sub-scores are.
C3_SkillFloors ==
    pc = "returned" =>
        /\ QGe(sub_scores.skill_score, QInt(90)) => QGe(overall_score, QInt(75))
        /\ QGe(sub_scores.skill_score, QInt(80)) => QGe(overall_score, QInt(70))
        /\ QGe(sub_scores.skill_score, QInt(70)) => QGe(overall_score, QInt(65))

\* a returned score that only the floor of the 80 tier brought up to 70
C3_FloorRaisedScore ==
    /\ pc = "returned"
    /\ QGe(sub_scores.skill_score, QInt(80))
    /\ sub_scores.tfidf_score = QInt(0)
    /\ QLt(SkillBonus(sub_scores.skill_score, WeightedSum(AdjustScores(sub_scores))), QInt(70))
    /\ overall_score = QInt(70)

DetailedAnalysisReturned == op = "get_detailed_analysis" /\ pc = "returned"

\* C4: in the result of get_detailed_analysis, matched is the skills of both
\* texts, missing those of the job text only, extra those of the resume only; the
\* three lists are pairwise disjoint and matched with missing is exactly the set
\* of skill terms found in the job text.
C4_SkillPartition ==
    DetailedAnalysisReturned =>
        LET resume_skills == extract_skills(InitAllSkills, resume_text)
            jd_skills     == extract_skills(InitAllSkills, jd_text)
            matched       == SeqToSet(analysis.skills.matched)
            missing       == SeqToSet(analysis.skills.missing)
            extra         == SeqToSet(analysis.skills.extra)
        IN  /\ matched = resume_skills \cap jd_skills
            /\ missing = jd_skills \ resume_skills
            /\ extra = resume_skills \ jd_skills
            /\ matched \cap missing = {}
            /\ matched \cap extra = {}
            /\ missing \cap extra = {}
            /\ matched \cup missing = jd_skills
            /\ Len(analysis.skills.matched) = Cardinality(matched)
            /\ Len(analysis.skills.missing) = Cardinality(missing)
            /\ Len(analysis.skills.extra) = Cardinality(extra)

\* an analysis with skills in each of the three lists
C4_AllThreeListsPopulated ==
    /\ DetailedAnalysisReturned
    /\ analysis.skills.matched # <<>>
    /\ analysis.skills.missing # <<>>
    /\ analysis.skills.extra # <<>>

ScenarioPair == resume_text = ScenarioResume /\ jd_text = ScenarioJd

\* C6: in the scenario (the resume's skills are exactly the job's, python and aws;
\* its 6 years meet the job's 5) the skill-match sub-score is 100, the experience
\* sub-score is 100, the achievement bonuses not taking it above 100, and the
\* overall score is at least 75.
C6_ScenarioScores ==
    (ScenarioPair /\ WeightedCallEnded) =>
        /\ pc = "returned"
        /\ extract_skills(all_skills, resume_text) = {"python", "aws"}
        /\ extract_skills(all_skills, jd_text) = {"python", "aws"}
        /\ sub_scores.skill_score = QInt(100)
        /\ sub_scores.experience_score = QInt(100)
        /\ QGe(overall_score, QInt(75))

\* the scenario scored, its resume holding an achievement verb and a quantified result
C6_ScenarioScored ==
    /\ ScenarioPair
    /\ op = "calculate_weighted_score"
    /\ pc = "returned"
    /\ CountAll(Lower(resume_text), achievement_keywords) > 0
    /\ FindNumbersCount(Lower(resume_text), TRUE, TRUE) > 0
    /\ sub_scores.experience_score = QInt(100)

AnalyzeReturned == op = "analyze_resume" /\ pc = "returned"

Mentions(statements, word) ==
    \E i \in 1..Len(statements) : Contains(Lower(statements[i]), word)

\* C7 as stated: in the scenario analyze_resume returns a strength that mentions
\* leadership and a strength that mentions quantifiable achievements.
C7_ScenarioMentionsLeadership ==
    (ScenarioPair /\ AnalyzeReturned) =>
        /\ Mentions(feedback.strengths, "leadership")
        /\ Mentions(feedback.strengths, "quantifiable") \/ Mentions(feedback.strengths, "metrics")

\* C7 as the code has it: in the scenario analyze_resume returns three strengths
\* (key technologies, years of experience, cloud platforms), none about leadership
\* or quantifiable achievements; the leadership strength is given for three or more
\* occurrences of leadership terms, a quantified-achievement strength for three or
\* more matches of the numbers pattern.
C7_ScenarioStrengths ==
    AnalyzeReturned =>
        /\ ScenarioPair =>
              feedback.strengths = <<"Proficiency in key technologies: python, r, aws",
                                     "Substantial industry experience (6+ years)",
                                     "Experience with cloud platforms: aws">>
        /\ Mentions(fired.strengths, "leadership and team management")
              <=> CountAll(Lower(resume_text), leadership_terms) >= 3
        /\ (Mentions(fired.strengths, "quantifiable") \/ Mentions(fired.strengths, "metrics"))
              <=> FindNumbersCount(Lower(resume_text), FALSE, TRUE) >= 3

\* the scenario analysed: one leadership term, one match of the numbers pattern
C7_ScenarioAnalysed ==
    /\ ScenarioPair
    /\ AnalyzeReturned
    /\ CountAll(Lower(resume_text), leadership_terms) = 1
    /\ FindNumbersCount(Lower(resume_text), FALSE, TRUE) = 1
    /\ Len(feedback.strengths) = 3

\* C8: for every non-empty resume and job text and every score, analyze_resume
\* returns three non-empty lists; strengths and weaknesses are the generic
\* statements exactly when none of their checks fired.
C8_ThreeListsNonEmpty ==
    (op = "analyze_resume" /\ pc \in {"returned", "raised"} /\ resume_text # "" /\ jd_text # "") =>
        /\ pc = "returned"
        /\ feedback.strengths # <<>>
        /\ feedback.weaknesses # <<>>
        /\ feedback.recommendations # <<>>
        /\ feedback.strengths = GenericStrengths <=> fired.strengths = <<>>
        /\ feedback.weaknesses = GenericWeaknesses <=> fired.weaknesses = <<>>

\* What does hold of the statement of C8: the lists that are returned are non-empty,
\* with the generic statements exactly when no check fired.
ReturnedListsNonEmpty ==
    AnalyzeReturned =>
        /\ feedback.strengths # <<>>
        /\ feedback.weaknesses # <<>>
        /\ feedback.recommendations # <<>>
        /\ feedback.strengths = GenericStrengths <=> fired.strengths = <<>>
        /\ feedback.weaknesses = GenericWeaknesses <=> fired.weaknesses = <<>>

\* C9: analyze_resume returns at most 6 strengths, 5 weaknesses and 8
\* recommendations, each list being the first statements, in check order, of those
\* generated (the checks' statements, or the generic ones when no check fired).
C9_CapsAndPrefixes ==
    AnalyzeReturned =>
        /\ Len(feedback.strengths) <= 6
        /\ Len(feedback.weaknesses) <= 5
        /\ Len(feedback.recommendations) <= 8
        /\ feedback.strengths =
              Take(IF fired.strengths = <<>> THEN GenericStrengths ELSE fired.strengths, 6)
        /\ feedback.weaknesses =
              Take(IF fired.weaknesses = <<>> THEN GenericWeaknesses ELSE fired.weaknesses, 5)
        /\ feedback.recommendations = Take(fired.recommendations, 8)

\* more strength checks fired than are returned
C9_StrengthsCut ==
    /\ AnalyzeReturned
    /\ Len(fired.strengths) > 6
    /\ Len(feedback.strengths) = 6

RankTable ==
    {<<"phd", 100>>, <<"doctorate", 100>>, <<"ph.d", 100>>,
     <<"masters", 80>>, <<"master", 80>>, <<"msc", 80>>, <<"ms", 80>>,
     <<"mba", 70>>,
     <<"bachelors", 60>>, <<"bachelor", 60>>, <<"bsc", 60>>, <<"bs", 60>>,
     <<"degree", 40>>}

\* the maximum rank of an education keyword found in the text, 0 if none
MaxRank(text) == Max({0} \cup {e[2] : e \in {x \in RankTable : Contains(Lower(text), x[1])}})

\* C10: with r and j the maximum ranks found in the resume and in the job text, the
\* education sub-score is 100 if r >= j, else r / max(j, 1) * 100 if r > 0, else 50;
\* a resume with "PhD" against the job text "Bachelor" scores 100.
C10_EducationScore ==
    (op = "calculate_weighted_score" /\ pc = "returned") =>
        LET r == MaxRank(resume_text)
            j == MaxRank(jd_text)
        IN  /\ sub_scores.education_score =
                  (IF r >= j THEN QInt(100)
                   ELSE IF r > 0 THEN Q(r * 100, Max({j, 1}))
                   ELSE QInt(50))
            /\ (Contains(resume_text, "PhD") /\ jd_text = "Bachelor")
                  => sub_scores.education_score = QInt(100)

\* a resume ranked below the job text: MBA against a masters degree scores 87.5
C10_LowerRankScored ==
    /\ op = "calculate_weighted_score"
    /\ pc = "returned"
    /\ MaxRank(resume_text) = 70
    /\ MaxRank(jd_text) = 80
    /\ sub_scores.education_score = Q(175, 2)

EmptyResumeScored == resume_text = "" /\ op = "calculate_weighted_score" /\ pc = "returned"

\* C11 as stated: with an empty resume each of the five sub-scores is 0 or 50, for
\* every job text.
C11_EmptyResumeNeutral ==
    EmptyResumeScored =>
        \A f \in DOMAIN sub_scores : sub_scores[f] \in {QInt(0), QInt(50)}

\* C11 as the code has it: with an empty resume the skill-match and content-similarity
\* sub-scores are 0, keyword density is 50 if the job text has no significant word and
\* 0 otherwise, experience is 50, and education is 50 if the job text holds an
\* education keyword and 100 if it holds none.
C11_EmptyResumeDefaults ==
    EmptyResumeScored =>
        /\ sub_scores.skill_score = QInt(0)
        /\ sub_scores.tfidf_score = QInt(0)
        /\ sub_scores.keyword_score =
              (IF {w \in SplitSet(preprocess_text(jd_text)) \ common_words : Len(w) > 2} = {}
               THEN QInt(50) ELSE QInt(0))
        /\ sub_scores.experience_score = QInt(50)
        /\ sub_scores.education_score = (IF MaxRank(jd_text) = 0 THEN QInt(100) ELSE QInt(50))

\* an empty resume scored against a job text without education keyword: education 100
C11_EmptyResumeFullEducation ==
    /\ EmptyResumeScored
    /\ jd_text = ScenarioJd
    /\ sub_scores.education_score = QInt(100)
    /\ sub_scores.keyword_score = QInt(0)


MissingCallEnded == absent # {} /\ pc \in {"returned", "raised"}

\* C12: a missing text (None in place of a string) never raises at any stage:
\* preprocess_text returns the empty string, and calculate_weighted_score,
\* get_detailed_analysis, get_comprehensive_metadata and analyze_resume each return
\* a default-valued result.
C12_MissingTextNeverRaises ==
    MissingCallEnded =>
        /\ pc = "returned"
        /\ (op = "preprocess_text" /\ absent = Arguments) => clean = ""
        /\ op = "calculate_weighted_score" => sub_scores = NoSubScores /\ overall_score = QInt(0)
        /\ op = "get_detailed_analysis" => analysis = NoAnalysis

\* What does hold of the statement of C12: the two operations that test "if not text"
\* return their defaults for a missing text.
MissingTextGuarded ==
    (MissingCallEnded /\ "resume_text" \in absent) =>
        /\ (op = "preprocess_text" /\ absent = Arguments) => pc = "returned" /\ clean = ""
        /\ op = "extract_email_phone_location" =>
               pc = "returned" /\ contact = <<NotFound, NotFound, NotFound>>

\* The other operations end with an AttributeError whenever an argument is missing.
MissingTextRaises ==
    (MissingCallEnded /\ op \in {"calculate_weighted_score", "get_detailed_analysis",
                                 "analyze_resume"}) =>
        pc = "raised" /\ exc = AttributeOfNone


MetadataCallEnded == op = "get_comprehensive_metadata" /\ pc \in {"returned", "raised"} /\ absent = {}

\* the keywords of any education level
EducationKeywords ==
    {"phd", "ph.d", "doctorate", "doctoral", "masters", "master", "msc", "ms", "mba", "ma",
     "bachelors", "bachelor", "bsc", "bs", "ba", "beng", "btech"}

\* a record whose four contact fields are strings, extracted or the sentinel, and whose
\* education list has an entry, the single sentinel exactly when the text holds no
\* education keyword
FieldsPresent ==
    /\ \A f \in {"name", "email", "phone", "location"} : metadata[f] # ""
    /\ Len(metadata.education) >= 1
    /\ metadata.education = <<NotSpecified>>
           <=> ~\E kw \in EducationKeywords : Contains(Lower(resume_text), kw)

\* C13: for every text, the record returned by get_comprehensive_metadata has name,
\* email, phone and location each an extracted string or "Not found", and an
\* education list of at least one entry (the single "Not specified" exactly when no
\* education keyword is detected); extract_email_phone_location on empty text returns
\* the sentinel for all three fields.
C13_MetadataFieldsPresent ==
    /\ MetadataCallEnded => pc = "returned" /\ FieldsPresent
    /\ (op = "extract_email_phone_location" /\ pc = "returned" /\ resume_text = "") =>
           contact = <<NotFound, NotFound, NotFound>>

\* What does hold of the statement of C13: a record that is returned has the fields,
\* and the empty text yields the three sentinels.
ReturnedFieldsPresent ==
    /\ (MetadataCallEnded /\ pc = "returned") => FieldsPresent
    /\ (op = "extract_email_phone_location" /\ pc = "returned" /\ resume_text = "") =>
           contact = <<NotFound, NotFound, NotFound>>


ContactLineExtracted ==
    resume_text = ContactLine /\ op = "get_comprehensive_metadata" /\ pc = "returned"

\* C14: metadata extraction on the one-line resume "Contact: jane.doe@example.com,
\* (415) 555-0100, San Francisco, CA" yields email "jane.doe@example.com", a phone
\* different from "Not found", and location "San Francisco, CA".
C14_ContactLineFields ==
    /\ ContactLineExtracted =>
           /\ metadata.email = "jane.doe@example.com"
           /\ metadata.phone # NotFound
           /\ metadata.location = "San Francisco, CA"
    /\ (resume_text = ContactLine /\ op = "extract_email_phone_location" /\ pc = "returned") =>
           /\ contact[1] = "jane.doe@example.com"
           /\ contact[2] # NotFound
           /\ contact[3] = "San Francisco, CA"

\* the contact line was extracted, its phone being the number as written
C14_ContactLineReached == ContactLineExtracted /\ metadata.phone = "(415) 555-0100"


\* the call that ended, made alone on a checker and an engine just constructed
AgreesWithCallAlone ==
    /\ op = "calculate_weighted_score" =>
           [exc |-> exc, val |-> overall_score]
               = calculate_weighted_score(InitAllSkills, resume_text, jd_text)
    /\ op = "get_detailed_analysis" =>
           [exc |-> exc, val |-> analysis]
               = get_detailed_analysis(InitAllSkills, resume_text, jd_text)
    /\ op = "analyze_resume" =>
           [exc |-> exc, val |-> feedback]
               = analyze_resume(InitCriticalSkills, resume_text, jd_text, match_score)

PipelineSum(s, c, k, x, e) ==
    LET c2 == IF QGe(s, QInt(90)) THEN QMax(c, QInt(60))
              ELSE IF QGe(s, QInt(80)) THEN QMax(c, QInt(50)) ELSE c
        k2 == IF QGe(s, QInt(90)) THEN QMax(k, QInt(50))
              ELSE IF QGe(s, QInt(80)) THEN QMax(k, QInt(40)) ELSE k
        W  == Q(50 * s.n * c2.d * k2.d * x.d * e.d + 20 * c2.n * s.d * k2.d * x.d * e.d
                + 15 * k2.n * s.d * c2.d * x.d * e.d + 10 * x.n * s.d * c2.d * k2.d * e.d
                + 5 * e.n * s.d * c2.d * k2.d * x.d,
                100 * s.d * c2.d * k2.d * x.d * e.d)
        B  == IF QGe(s, QInt(95)) THEN 8 ELSE IF QGe(s, QInt(85)) THEN 5
              ELSE IF QGe(s, QInt(75)) THEN 3 ELSE 0
    IN  QAdd(W, QInt(B))

\* max(F, min(100, W + B))
PipelineValue(sub) ==
    LET s == sub.skill_score
        F == IF QGe(s, QInt(90)) THEN 75 ELSE IF QGe(s, QInt(80)) THEN 70
             ELSE IF QGe(s, QInt(70)) THEN 65 ELSE 0
    IN  QMax(QInt(F), QMin(QInt(100), PipelineSum(s, sub.tfidf_score, sub.keyword_score,
                                                 sub.experience_score, sub.education_score)))

\* r is v rounded to one decimal place: a whole number of tenths at most 1/20 from v
IsRound1(r, v) ==
    LET diff == r.n * v.d - v.n * r.d
    IN  OneDecimal(r) /\ 20 * (IF diff < 0 THEN -diff ELSE diff) <= r.d * v.d

\* C16: the overall score is round1(max(F, min(100, W + B))), with the content and
\* keyword sub-scores floored first (60 and 50 from a skill sub-score of 90, 50 and 40
\* from 80), W the sum weighted 0.50, 0.20, 0.15, 0.10, 0.05, B = 8, 5, 3 from a
\* skill sub-score of 95, 85, 75 and F = 75, 70, 65 from 90, 80, 70.
C16_CombinationPipeline ==
    pc = "returned" => IsRound1(overall_score, PipelineValue(sub_scores))

\* a returned score of 100 that the cap of the bonus step produced: W + B is above 100
C16_BonusCapped ==
    /\ pc = "returned"
    /\ QLt(QInt(100), PipelineSum(sub_scores.skill_score, sub_scores.tfidf_score,
                                  sub_scores.keyword_score, sub_scores.experience_score,
                                  sub_scores.education_score))
    /\ overall_score = QInt(100)


WeightedScoreReturned == op = "calculate_weighted_score" /\ pc = "returned"

\* min(100, 100 * (matched / required + min(0.02 * extra, 0.10)))
SkillMatchFormula(matched, required, extra) ==
    QMin(QInt(100), QAdd(Q(100 * matched, required), Q(Min({2 * extra, 10}) * 100, 100)))

\* C17: the skill-match sub-score is 0 when the job text yields no skill term;
\* otherwise it is min(100, 100 * (|matched| / |jd_skills| + min(0.02 * |extra|, 0.10))),
\* matched being the terms of both texts and extra those of the resume only.
C17_SkillMatchScore ==
    WeightedScoreReturned =>
        sub_scores.skill_score =
            IF extract_skills(InitAllSkills, jd_text) = {} THEN QInt(0)
            ELSE SkillMatchFormula(
                     Cardinality(extract_skills(InitAllSkills, resume_text)
                                 \cap extract_skills(InitAllSkills, jd_text)),
                     Cardinality(extract_skills(InitAllSkills, jd_text)),
                     Cardinality(extract_skills(InitAllSkills, resume_text)
                                 \ extract_skills(InitAllSkills, jd_text)))

\* a resume with part of the job's terms and more than five terms of its own: the
\* bonus is at its limit of 10 and the score below 100
C17_ExtraBonusLimited ==
    /\ WeightedScoreReturned
    /\ Cardinality(extract_skills(InitAllSkills, resume_text)
                   \ extract_skills(InitAllSkills, jd_text)) > 5
    /\ extract_skills(InitAllSkills, resume_text) \cap extract_skills(InitAllSkills, jd_text) # {}
    /\ QLt(sub_scores.skill_score, QInt(100))


SkillsExtracted == op = "extract_skills" /\ pc = "returned"

\* term occurs in t between two delimiters, a delimiter being an edge of t or a
\* character outside inside
WholeWord(t, term, inside) ==
    \E i \in 1..(Len(t) - Len(term) + 1) :
        /\ SubSeq(t, i, i + Len(term) - 1) = term
        /\ Ch(t, i - 1) \notin inside
        /\ Ch(t, i + Len(term)) \notin inside

\* C18: for every taxonomy term, 'c++' and the terms of several words included,
\* extract_skills returns the term if and only if the text contains it, letter case
\* ignored, as a whole word: delimited by the edges of the text or characters that
\* are not alphanumeric; a term that occurs several times is returned once.
C18_WholeWordTerms ==
    SkillsExtracted =>
        \A term \in InitAllSkills :
            term \in found_skills <=> WholeWord(Lower(resume_text), term, AlnumSet)

\* What does hold of the statement of C18: a term that begins and ends with a letter
\* or a digit is returned exactly when it occurs between edges of the text and
\* characters other than letters, digits and the underscore.
AlnumTermsWholeWord ==
    SkillsExtracted =>
        \A term \in InitAllSkills :
            (Ch(term, 1) \in AlnumSet /\ Ch(term, Len(term)) \in AlnumSet) =>
                (term \in found_skills <=> WholeWord(Lower(resume_text), term, WordCharSet))

\* 'c++' is returned exactly when a letter, a digit or an underscore follows it
CppNeedsWordCharAfter ==
    SkillsExtracted =>
        ("c++" \in found_skills <=>
            \E i \in 1..(Len(resume_text) - 2) :
                /\ SubSeq(Lower(resume_text), i, i + 2) = "c++"
                /\ Ch(resume_text, i - 1) \notin WordCharSet
                /\ Ch(resume_text, i + 3) \in WordCharSet)


\* the achievement verbs of C19
AchievementVerbs ==
    <<"developed", "built", "created", "led", "managed", "implemented", "designed",
      "architected", "deployed", "achieved", "delivered", "launched", "optimized">>

\* the base of C19: R and J are the sets of '<N> year(s)' values of the resume and of
\* the job text
ExperienceBase(R, J) ==
    IF R = {} THEN 50
    ELSE IF J # {}
    THEN (IF Max(R) >= Max(J) THEN 100
          ELSE IF 10 * Max(R) >= 8 * Max(J) THEN 85
          ELSE IF 10 * Max(R) >= 6 * Max(J) THEN 70
          ELSE 60)
    ELSE (IF Max(R) >= 5 THEN 90
          ELSE IF Max(R) >= 3 THEN 80
          ELSE IF Max(R) >= 1 THEN 70
          ELSE 50)

\* min(100, base + min(1.5 * verbs, 15) + min(2 * quantified, 10))
ExperienceFormula(base, verbs, quantified) ==
    QMin(QInt(100), QAdd(QInt(base + Min({2 * quantified, 10})),
                         Q(Min({3 * verbs, 30}), 2)))

\* occurrences of the achievement verbs in a lowercased resume
VerbOccurrences(resume_low) ==
    LET CountOf(verb) == Count(resume_low, verb)
    IN  SumOver(CountOf, AchievementVerbs, 1)

\* C19: the experience sub-score is min(100, base + min(1.5 * achievement-verb
\* occurrences, 15) + min(2 * quantified-achievement matches, 10)), the base being,
\* with R and J the largest '<N> year(s)' values of the resume and the job text, 100
\* for R >= J, 85 for R >= 0.8 J, 70 for R >= 0.6 J and 60 below when both exist;
\* 90, 80, 70 for R >= 5, 3, 1 and else 50 when only the resume mentions years; and
\* 50 when the resume mentions none.
C19_ExperienceScore ==
    WeightedScoreReturned =>
        sub_scores.experience_score =
            ExperienceFormula(
                ExperienceBase({IntValue(x) : x \in FindExperience(Lower(resume_text))},
                               {IntValue(x) : x \in FindExperience(Lower(jd_text))}),
                VerbOccurrences(Lower(resume_text)),
                FindNumbersCount(Lower(resume_text), TRUE, TRUE))

\* a resume of 4 years against a job of 5, with one achievement verb and one
\* quantified achievement: 85 + 1.5 + 2
C19_CloseEnoughWithBonuses ==
    /\ WeightedScoreReturned
    /\ FindExperience(Lower(resume_text)) = {"4"}
    /\ FindExperience(Lower(jd_text)) = {"5"}
    /\ sub_scores.experience_score = Q(177, 2)


\* the fixed stop-word list of C20
KeywordStopWords ==
    {"the", "and", "for", "with", "this", "that", "from", "have", "has", "had", "are", "was",
     "were", "will", "would", "could", "should", "may", "might", "must", "can", "our", "your",
     "their", "about", "into", "through", "during", "before", "after", "above", "below",
     "between", "under", "again", "further", "then", "once"}

\* the normalized words of the job text, less the stop words and the words of length <= 2
JobKeywords(jd_text_in) ==
    {w \in SplitSet(preprocess_text(jd_text_in)) \ KeywordStopWords : Len(w) > 2}

\* matched / required * 100, plus 0.5 for each keyword matched beyond the size of the
\* required set, at most 15; at most 100 in all
KeywordFormula(matched, required) ==
    QMin(QInt(100),
         QAdd(Q(100 * matched, required),
              Q(Min({IF matched > required THEN matched - required ELSE 0, 30}), 2)))

\* C20: the keyword-density sub-score is 50 when jd_keywords (the normalized job
\* words minus the fixed stop-word list minus the words of length <= 2) is empty;
\* otherwise it is |resume_words intersected with jd_keywords| / |jd_keywords| * 100
\* plus 0.5 per keyword matched beyond the required set size (at most 15), at most 100.
C20_KeywordDensityScore ==
    WeightedScoreReturned =>
        sub_scores.keyword_score =
            IF JobKeywords(jd_text) = {} THEN QInt(50)
            ELSE KeywordFormula(
                     Cardinality(SplitSet(preprocess_text(resume_text)) \cap JobKeywords(jd_text)),
                     Cardinality(JobKeywords(jd_text)))

\* a resume that holds some of the job's keywords, the job text holding a stop word
C20_PartOfKeywordsMatched ==
    /\ WeightedScoreReturned
    /\ SplitSet(preprocess_text(jd_text)) \cap KeywordStopWords # {}
    /\ QLt(QInt(0), sub_scores.keyword_score)
    /\ QLt(sub_scores.keyword_score, QInt(100))


NameExtracted == op = "get_comprehensive_metadata" /\ pc = "returned" /\ absent = {}

\* a line without '@' and without a phone-shaped substring, of 2 to 4 capitalized words
QualifiesAsName(line) ==
    /\ ~Contains(line, "@")
    /\ SearchSeq(line, <<Rep(DigitSet, 3, 3), Opt(PhoneSeparators), Rep(DigitSet, 3, 3),
                         Opt(PhoneSeparators), Rep(DigitSet, 4, 4)>>)[1] = 0
    /\ MatchesName(line)

\* the first line of window that qualifies, or "Not found"
FirstQualifying(window) ==
    IF \E i \in 1..Len(window) : QualifiesAsName(Strip(window[i]))
    THEN Strip(window[Min({i \in 1..Len(window) : QualifiesAsName(Strip(window[i]))})])
    ELSE NotFound

IsInked(line) == Strip(line) # ""

\* C21: extract_name returns the first line, among the first 5 non-empty lines of the
\* text, that holds no '@' and no phone-shaped substring and consists of 2 to 4
\* capitalized words, and "Not found" only when none of those 5 lines qualifies:
\* leading blank lines do not use up the window of 5 lines.
C21_NameInFirstNonEmptyLines ==
    NameExtracted =>
        metadata.name = FirstQualifying(Take(SelectSeq(Lines(resume_text), IsInked), 5))

\* What does hold of the statement of C21: the name is the first qualifying line among
\* the first 5 lines of the text, the blank ones counted.
NameInFirstFiveLines ==
    NameExtracted => metadata.name = FirstQualifying(Take(Lines(resume_text), 5))


\* the trigger of each targeted recommendation
TargetedRecommendations ==
    {<<"quantifiable",
       "Add numbers and metrics to your achievements (e.g., '25% improvement', 'saved $50K', 'led team of 8')">>,
     <<"cloud", "Highlight any cloud-related projects or experiences, even if limited">>,
     <<"machine learning", "Include any ML coursework, projects, or self-learning experiences">>,
     <<"action verbs",
       "Start bullet points with strong action verbs: Led, Engineered, Architected, Optimized, Implemented">>,
     <<"certifications",
       "Consider obtaining relevant certifications (AWS, Azure, TensorFlow, etc.) to strengthen your profile">>}

\* C22: each targeted recommendation (metrics, cloud projects, ML coursework, action
\* verbs, certifications) is in the returned recommendations if and only if the text
\* of the returned weaknesses, already cut to 5, holds its trigger; a weakness check
\* that fired but was cut triggers no recommendation.
C22_TargetedRecommendations ==
    AnalyzeReturned =>
        \A t \in TargetedRecommendations :
            t[2] \in SeqToSet(feedback.recommendations)
                <=> Contains(Lower(Join(feedback.weaknesses, " ")), t[1])

\* the certification check fired and was cut with two others, and the recommendation
\* to obtain certifications is not made
C22_CutWeaknessNotRecommended ==
    /\ AnalyzeReturned
    /\ "No relevant certifications mentioned" \in SeqToSet(fired.weaknesses)
    /\ Len(fired.weaknesses) = 8
    /\ Len(feedback.weaknesses) = 5
    /\ ~\E i \in 1..Len(feedback.recommendations) :
           Contains(feedback.recommendations[i], "certifications")


LinkedInRecommendation == "Ensure your LinkedIn profile matches your resume for consistency"

\* C23: the list of recommendations analyze_resume returns holds the LinkedIn
\* recommendation, whatever the resume, the job text and the score
C23_LinkedInAlwaysRecommended ==
    AnalyzeReturned => LinkedInRecommendation \in SeqToSet(feedback.recommendations)

\* the LinkedIn recommendation is returned whenever fewer than eight recommendations
\* stand before it in the list the call built
LinkedInWithinCap ==
    AnalyzeReturned =>
        (LinkedInRecommendation \in SeqToSet(feedback.recommendations)
            <=> \E i \in DOMAIN fired.recommendations :
                    i <= RecommendationCap /\ fired.recommendations[i] = LinkedInRecommendation)

\* a returned call that had built eight recommendations before it appended the LinkedIn one
LinkedInCut ==
    /\ AnalyzeReturned
    /\ Len(feedback.recommendations) = RecommendationCap
    /\ Len(fired.recommendations) > RecommendationCap
    /\ fired.recommendations[RecommendationCap + 1] = LinkedInRecommendation
    /\ LinkedInRecommendation \notin SeqToSet(feedback.recommendations)


\* C26: fitted on the two documents with max_df 0.95, the vectorizer keeps no term
\* that both the job text and the resume hold, and calculate_tfidf_score is 0 for
\* every pair of texts, identical texts included.
C26_TfidfScoreZero ==
    WeightedCallEnded =>
        LET Shared(fit) == fit.exc = NoException => fit.val.shared = {}
        IN  /\ Shared(TfidfFit(preprocess_text(jd_text), preprocess_text(resume_text)))
            /\ sub_scores.tfidf_score = QInt(0)

\* a scored pair of texts that have a term in common while each has a term of its own
C26_SharedTermDiscarded ==
    /\ op = "calculate_weighted_score" /\ pc = "returned"
    /\ LET Overlap(A, B) == A \cap B # {} /\ A \ B # {} /\ B \ A # {}
       IN  Overlap(Ngrams(preprocess_text(jd_text)), Ngrams(preprocess_text(resume_text)))
    /\ sub_scores.tfidf_score = QInt(0)


\* a scored pair of identical texts that hold a term
IdenticalTextsScored ==
    /\ op = "calculate_weighted_score" /\ pc = "returned"
    /\ resume_text = jd_text /\ Ngrams(preprocess_text(jd_text)) # {}
    /\ sub_scores.tfidf_score = QInt(0)


\* C27: in calculate_keyword_density_score the matched keywords are never more than
\* the job's keywords, so no bonus is added: with a non-empty job keyword set the
\* score is exactly |resume_words intersected with jd_keywords| / |jd_keywords| * 100.
C27_KeywordBonusNeverAdded ==
    WeightedScoreReturned =>
        LET Exact(matched, required) ==
                required > 0 =>
                    /\ matched <= required
                    /\ sub_scores.keyword_score = Q(100 * matched, required)
        IN  Exact(Cardinality(SplitSet(preprocess_text(resume_text)) \cap JobKeywords(jd_text)),
                  Cardinality(JobKeywords(jd_text)))

\* a scored resume of more distinct words than the job has keywords, which holds some
\* of them but not all
C27_LongerResumePartMatch ==
    /\ WeightedScoreReturned
    /\ Cardinality(SplitSet(preprocess_text(resume_text))) > Cardinality(JobKeywords(jd_text))
    /\ QLt(QInt(0), sub_scores.keyword_score)
    /\ QLt(sub_scores.keyword_score, QInt(100))


\* round(x, 1) of a float whose exact value is x, a tie falling as up says
RoundEitherWay(x, up) ==
    IF IsTie(x) THEN Q((x.n * 10) \div x.d + (IF up THEN 1 ELSE 0), 10) ELSE Round1(x)

\* the sub-scores of the state with another skill-match sub-score
WithSkill(s) == [sub_scores EXCEPT !.skill_score = s]

\* C28: with the other four sub-scores fixed, the overall score of the combination
\* step does not decrease when the skill-match sub-score is raised, across the tier
\* boundaries 70, 75, 80, 85, 90 and 95.
C28_MonotoneInSkill ==
    (op = "calculate_weighted_score" /\ pc = "returned") =>
        \A s \in SkillGrid : \A up \in BOOLEAN :
            QLt(sub_scores.skill_score, s) =>
                /\ QLe(FinalScore(sub_scores), FinalScore(WithSkill(s)))
                /\ QLe(overall_score, RoundEitherWay(FinalScore(WithSkill(s)), up))

\* a combination just under the 90 tier whose score the step into the tier raises
C28_RaisedAcrossTier ==
    /\ op = "calculate_weighted_score" /\ pc = "returned"
    /\ sub_scores.skill_score = Q(899, 10)
    /\ sub_scores.tfidf_score = QInt(0)
    /\ QLt(overall_score, CombineScores(WithSkill(QInt(90))))


\* the score after the bonus, before the final floor
BonusAdjustedSum(sub) == SkillBonus(sub.skill_score, WeightedSum(AdjustScores(sub)))

\* C29: the experience sub-score is at least 50 and the education sub-score at
\* least 40 for every input; hence with a skill-match sub-score >= 90 the
\* bonus-adjusted weighted sum is already >= 75 and the final floor of 75 leaves it
\* as it is.
C29_FloorOf75Idle ==
    WeightedScoreReturned =>
        /\ QGe(sub_scores.experience_score, QInt(50))
        /\ QGe(sub_scores.education_score, QInt(40))
        /\ QGe(sub_scores.skill_score, QInt(90)) =>
              /\ QGe(BonusAdjustedSum(sub_scores), QInt(75))
              /\ FinalScore(sub_scores) = BonusAdjustedSum(sub_scores)

\* a scored pair in the 90 tier with the least experience and education sub-scores
C29_LeastSubScoresInTier ==
    /\ WeightedScoreReturned
    /\ QGe(sub_scores.skill_score, QInt(90))
    /\ sub_scores.experience_score = QInt(50)
    /\ sub_scores.education_score = QInt(40)

\* the same on the grid of the combination step: no combination of the 90 tier is
\* below 75 before the final floor
FloorOf75IdleOnGrid ==
    (op = "calculate_weighted_score" /\ pc = "returned"
        /\ QGe(sub_scores.skill_score, QInt(90))) =>
            QGe(BonusAdjustedSum(sub_scores), Q(765, 10))


\* C30: extract_companies is a function of the text alone up to order: every list
\* it can return for a text holds the same set of names, without duplicates and of
\* at most 5 names, also when more than five distinct names match the patterns.
C30_CompaniesFunctionOfText ==
    NameExtracted =>
        /\ Len(metadata.companies) <= 5
        /\ Cardinality(SeqToSet(metadata.companies)) = Len(metadata.companies)
        /\ \A other \in extract_companies(resume_text) :
               SeqToSet(other) = SeqToSet(metadata.companies)

\* what holds of the returned companies: at most 5 of the names that match, none
\* twice, and all of them when no more than 5 match
CompaniesAmongMatches ==
    NameExtracted =>
        /\ Len(metadata.companies) = Min({5, Cardinality(CompanyNames(resume_text))})
        /\ Cardinality(SeqToSet(metadata.companies)) = Len(metadata.companies)
        /\ SeqToSet(metadata.companies) \subseteq CompanyNames(resume_text)

\* two calls on the resume of six employers can differ in the name they leave out
SixthEmployerLeftOut ==
    /\ NameExtracted
    /\ resume_text = SixEmployers
    /\ CompanyNames(resume_text) = {"Acme", "Beta", "Core", "Delta", "Echo", "Fox"}
    /\ "Delta" \notin SeqToSet(metadata.companies)


\* the screening results whose candidate_id is the id of no row of candidates
Orphans == {r \in screening_results : ~\E c \in candidates : c.id = r.candidate_id}

\* C24: after any interleaving of portal submissions, delete_candidate and
\* clear_all_data calls of concurrent sessions, the candidate_id of every row of
\* screening_results is the id of a row of candidates.
C24_ReferentialIntegrity == Orphans = {}

\* an orphan's candidate_id is an id the candidates table handed out earlier: the row
\* it named was deleted, and AUTOINCREMENT gives its id to no later candidate
OrphansOnlyOfOvertakenSubmissions ==
    \A r \in Orphans : r.candidate_id \in 1..sqlite_sequence.candidates

\* delete_candidate and clear_all_data themselves leave no orphan behind
DeletionsKeepIntegrity ==
    [][(DeleteCandidate \/ ClearAllData) => (Orphans = {} => Orphans' = {})]_vars

\* a result stored for a candidate that a deletion removed in between
OrphanStored ==
    /\ candidates = {}
    /\ \E r \in screening_results : r.candidate_id = 1
    /\ \A s \in Sessions : sessions[s].pc = "idle"


\* a session whose last file was saved by the duplicate-email fallback
SavedUnderExisting(s) == sessions[s].saved = "existing"

\* C25: when add_candidate returns None because the email is stored already, the
\* portal saves the screening result under the stored candidate whose email is the
\* submitted one, never under another candidate.
C25_SavedUnderSameEmail ==
    \A s \in Sessions :
        SavedUnderExisting(s) =>
            \A c \in candidates :
                c.id = sessions[s].existing_id => c.email = sessions[s].candidate_email

\* what holds of the fallback: the candidate it saves under has the submitted email
\* somewhere inside its name or email
SavedUnderLikeEmail ==
    \A s \in Sessions :
        SavedUnderExisting(s) =>
            \A c \in candidates :
                c.id = sessions[s].existing_id =>
                    c \in search_candidates({c}, sessions[s].candidate_email)

\* a result of the submission for ann@x.io stored under the candidate joann@x.io
SavedUnderOtherCandidate ==
    \E s \in Sessions : \E c \in candidates : \E r \in screening_results :
        /\ SavedUnderExisting(s)
        /\ sessions[s].candidate_email = "ann@x.io"
        /\ c.id = sessions[s].existing_id /\ c.email = "joann@x.io"
        /\ r.candidate_id = c.id
        /\ EmailEquals(candidates, "ann@x.io") # {}

====
